---- MODULE Spec2Model ----
(***************************************************************************)
(* A model of the AksoEo voting library: the ballot encoder and the        *)
(* buffer it produces, the scan primitives that read the buffer, and the   *)
(* Threshold Majority, Ranked Pairs and Single Transferable Vote engines.  *)
(*                                                                         *)
(* An ArrayBuffer is a sequence of u16 words (word i of the code is        *)
(* element i + 1 of the sequence); a Uint32Array element is two words,     *)
(* low word first.  A JavaScript Map or Set is a sequence in insertion     *)
(* order.  The float64 vote values of the STV engine are exact rationals   *)
(* <<numerator, denominator>>.                                             *)
(***************************************************************************)
EXTENDS Integers, Sequences, FiniteSets, TLC

(***************************************************************************)
(* Bounds of the model.                                                    *)
(***************************************************************************)
\* largest declared ballot count of an encoder run
MaxCount == 3
\* largest number of ballots handed to an engine
MaxBallots == 3
\* largest declared ballot count of an encoder called with any ballots
MaxDeclared == 2
\* largest number of addBallot calls beyond the declared count
MaxExtra == 1

\* largest max_winners handed to an engine
MaxWinners == 2
\* largest max_winners handed to rankedPairs: one more than the candidates
\* of the shorter candidate list
MaxRpWinners == 3

\* candidate ids that occur on ballots
Ids == {1, 2, 3}

VARIABLES
    enc,     \* the BallotEncoder object, or NoEnc before construction
    added,   \* the ballots passed to addBallot so far, in order
    buf,     \* the ArrayBuffer returned by finish, <<>> before
    stv,     \* the run of singleTransferableVote
    rp,      \* the run of rankedPairs
    tm,      \* the call of thresholdMajority
    cv       \* the call of runConfigVote or runMappedConfigVote

vars == <<enc, added, buf, stv, rp, tm, cv>>

(***************************************************************************)
(* Generic helpers.                                                        *)
(***************************************************************************)
Min2(a, b) == IF a <= b THEN a ELSE b

Range(s) == {s[i] : i \in 1..Len(s)}

\* Array.prototype.indexOf, zero-based, -1 when absent
RECURSIVE IndexFrom(_, _, _)
IndexFrom(s, x, i) ==
    IF i > Len(s) THEN -1
    ELSE IF s[i] = x THEN i - 1
    ELSE IndexFrom(s, x, i + 1)

IndexOf(s, x) == IndexFrom(s, x, 1)

Has(s, x) == \E i \in 1..Len(s) : s[i] = x

\* Array.prototype.filter
RECURSIVE FilterSeq(_, _)
FilterSeq(s, keep) ==
    IF s = <<>> THEN <<>>
    ELSE (IF Head(s) \in keep THEN <<Head(s)>> ELSE <<>>) \o FilterSeq(Tail(s), keep)

\* Set.prototype.add on an insertion-ordered set
SetAdd(s, x) == IF Has(s, x) THEN s ELSE Append(s, x)

\* Set.prototype.delete
SetDel(s, x) == FilterSeq(s, Range(s) \ {x})

\* what Array.prototype.splice(n) leaves: the first n elements, or all but
\* the last -n when n is negative
Prefix(s, n) ==
    LET k == IF n < 0 THEN Len(s) + n ELSE n
    IN IF k >= Len(s) THEN s ELSE IF k <= 0 THEN <<>> ELSE SubSeq(s, 1, k)

\* sequences over S of length at most n
SeqsUpTo(S, n) == UNION {[1..k -> S] : k \in 0..n}


(***************************************************************************)
(* Typed-array views of a buffer.                                          *)
(***************************************************************************)
\* what an out-of-range or fractional typed-array read returns (undefined)
Undef == -1

U16Mod == 65536

ByteLength(mem) == 2 * Len(mem)

\* Uint16Array read
R16(mem, i) == IF i >= 0 /\ i < Len(mem) THEN mem[i + 1] ELSE Undef

\* Uint32Array length
Len32(mem) == Len(mem) \div 2

\* Uint32Array read
R32(mem, k) ==
    IF k >= 0 /\ k < Len32(mem) THEN mem[2 * k + 1] + U16Mod * mem[2 * k + 2] ELSE Undef

\* Uint16Array write; a write outside the array is dropped
W16(mem, i, v) ==
    IF i >= 0 /\ i < Len(mem) THEN [mem EXCEPT ![i + 1] = v % U16Mod] ELSE mem

\* Uint32Array write; a write outside the array is dropped
W32(mem, k, v) ==
    IF k >= 0 /\ k < Len32(mem)
    THEN [mem EXCEPT ![2 * k + 1] = v % U16Mod, ![2 * k + 2] = (v \div U16Mod) % U16Mod]
    ELSE mem

\* a typed array filled element by element: the function as a tuple
Array(f) == f \o <<>>

Zeros(n) == Array([i \in 1..n |-> 0])

\* the function f restricted to the keys S, with every value computed
RECURSIVE Table(_, _)
Table(S, f) ==
    IF S = {} THEN <<>>
    ELSE LET k == CHOOSE x \in S : TRUE
         IN (k :> f[k]) @@ Table(S \ {k}, f)

\* Math.ceil(a / b) for b > 0
CeilDiv(a, b) == (a + b - 1) \div b

\* 2 ** Math.ceil(Math.log2(x)) for x >= 1
RECURSIVE Pow2From(_, _)
Pow2From(p, x) == IF p >= x THEN p ELSE Pow2From(2 * p, x)

Pow2Ceil(x) == Pow2From(1, x)

(***************************************************************************)
(* BallotEncoder.  A ballot is a sequence of ranks; a rank is a record     *)
(* [num, ids]: num = TRUE is a rank given as a single number (ids has one  *)
(* element), num = FALSE a rank given as an array of ids.                  *)
(***************************************************************************)
\* a rank given as an array of ids
ArrayRank(ids) == [num |-> FALSE, ids |-> ids]
\* a rank given as a single number
NumberRank(id) == [num |-> TRUE, ids |-> <<id>>]

NoEnc == [made |-> FALSE]

\* Map.get(key) || 0 on an insertion-ordered map of <<key, value>> pairs
RECURSIVE MapGet0(_, _)
MapGet0(m, k) ==
    IF m = <<>> THEN 0
    ELSE IF Head(m)[1] = k THEN Head(m)[2]
    ELSE MapGet0(Tail(m), k)

MapHas(m, k) == \E i \in 1..Len(m) : m[i][1] = k

\* Map.set(key, value): an existing key keeps its place
MapSet(m, k, v) ==
    IF MapHas(m, k)
    THEN Array([i \in 1..Len(m) |-> IF m[i][1] = k THEN <<k, v>> ELSE m[i]])
    ELSE Append(m, <<k, v>>)

MapKeys(m) == {m[i][1] : i \in 1..Len(m)}

\* constructor(count)
EncoderNew(count) ==
    [made |-> TRUE,
     count |-> count,
     mem |-> W32(Zeros(Pow2Ceil(6 * count + 4) \div 2), 0, count),
     ballotIndex |-> 1,
     ballotCursor |-> 8 + 4 * count,
     candidateMentions |-> <<>>,
     threw |-> FALSE]

\* #resizeToWriteAt(index), with #resize: the buffer doubles, its content is kept
ResizeToWriteAt(mem, index) ==
    IF ByteLength(mem) <= index
    THEN mem \o Zeros((2 * Pow2Ceil(ByteLength(mem)) - ByteLength(mem)) \div 2)
    ELSE mem

\* addBallot with the separator written before every rank, the first included
RECURSIVE RowWordsSeparatorFirst(_, _)
RowWordsSeparatorFirst(ranks, isFirstRank) ==
    IF ranks = <<>> THEN <<>>
    ELSE <<0>> \o Head(ranks).ids \o RowWordsSeparatorFirst(Tail(ranks), FALSE)

\* the u16 words addBallot writes for a ballot: the ids of each rank in the
\* order given, a 0 before every rank but the first
RECURSIVE RowWordsFrom(_, _)
RowWordsFrom(ranks, isFirstRank) ==
    IF ranks = <<>> THEN <<>>
    ELSE (IF isFirstRank THEN <<>> ELSE <<0>>) \o Head(ranks).ids
         \o RowWordsFrom(Tail(ranks), FALSE)

RowWords(ranks) == RowWordsFrom(ranks, TRUE)

\* if (!item) throw new Error('ballot item cannot be 0'): only the items of
\* a rank given as an array are tested
ThrowsOn(rank) == ~rank.num /\ Has(rank.ids, 0)

Throws(ranks) == \E k \in 1..Len(ranks) : ThrowsOn(ranks[k])

\* the ids of an array rank before its first 0
RECURSIVE IdsBeforeZero(_)
IdsBeforeZero(ids) ==
    IF ids = <<>> \/ Head(ids) = 0 THEN <<>> ELSE <<Head(ids)>> \o IdsBeforeZero(Tail(ids))

\* the part of a ballot that addBallot's loop works through: all of it, or
\* the ranks up to the item that throws
RECURSIVE RanksBeforeThrow(_)
RanksBeforeThrow(ranks) ==
    IF ranks = <<>> THEN <<>>
    ELSE IF ThrowsOn(Head(ranks))
    THEN <<[num |-> FALSE, ids |-> IdsBeforeZero(Head(ranks).ids)]>>
    ELSE <<Head(ranks)>> \o RanksBeforeThrow(Tail(ranks))

\* the ids of the ranks in the order of the loop
RECURSIVE RowIds(_)
RowIds(ranks) == IF ranks = <<>> THEN <<>> ELSE Head(ranks).ids \o RowIds(Tail(ranks))

\* candidateMentions.set(id, (candidateMentions.get(id) || 0) + 1) for each id
RECURSIVE CountMentions(_, _)
CountMentions(mentions, ids) ==
    IF ids = <<>> THEN mentions
    ELSE CountMentions(MapSet(mentions, Head(ids), MapGet0(mentions, Head(ids)) + 1), Tail(ids))

\* the writes of addBallot's loop: each word goes to ballots16[cursor16++]
\* after #resizeToWriteAt
RECURSIVE WriteRow(_, _, _)
WriteRow(mem, cursor16, words) ==
    IF words = <<>> THEN [mem |-> mem, cursor16 |-> cursor16]
    ELSE WriteRow(W16(ResizeToWriteAt(mem, 2 * cursor16), cursor16, Head(words)),
                  cursor16 + 1, Tail(words))

\* addBallot(ranks) after the loop has worked through the ranks done and
\* written w: a throw leaves ballotCursor as it was
EncoderAddedRow(e, ranks, done, w) ==
    [e EXCEPT !.mem = w.mem,
              !.ballotIndex = e.ballotIndex + 1,
              !.ballotCursor = IF Throws(ranks) THEN e.ballotCursor ELSE 2 * w.cursor16,
              !.candidateMentions = CountMentions(e.candidateMentions, RowIds(done)),
              !.threw = Throws(ranks)]

\* addBallot(ranks) on the ranks its loop works through
EncoderAddRow(e, ranks, done) ==
    EncoderAddedRow(e, ranks, done,
                    WriteRow(W32(e.mem, e.ballotIndex, e.ballotCursor), e.ballotCursor \div 2,
                             RowWords(done)))

\* addBallot(ranks)
EncoderAddBallot(e, ranks) == EncoderAddRow(e, ranks, RanksBeforeThrow(ranks))

\* the loop of #writeMentions: candidate and count as two u32 per map entry
RECURSIVE WriteMentionEntries(_, _, _)
WriteMentionEntries(mem, cursor32, mentions) ==
    IF mentions = <<>> THEN [mem |-> mem, cursor32 |-> cursor32]
    ELSE LET m1 == W32(ResizeToWriteAt(mem, 4 * cursor32), cursor32, Head(mentions)[1])
             m2 == W32(ResizeToWriteAt(m1, 4 * (cursor32 + 1)), cursor32 + 1, Head(mentions)[2])
         IN WriteMentionEntries(m2, cursor32 + 2, Tail(mentions))

\* #writeMentions(): the end pointer is written without a resize check
EncoderWriteMentions(e) ==
    LET m0 == W32(e.mem, e.ballotIndex, e.ballotCursor)
        w == WriteMentionEntries(m0, CeilDiv(e.ballotCursor, 4), e.candidateMentions)
    IN [e EXCEPT !.mem = w.mem,
                 !.ballotIndex = e.ballotIndex + 1,
                 !.ballotCursor = 4 * w.cursor32]

\* finish(): the first newLen bytes of the buffer, zero-filled past its end
EncoderFinish(e) ==
    LET f == EncoderWriteMentions(e)
        newLen == CeilDiv(f.ballotCursor, 4) * 4
    IN Array([i \in 1..(newLen \div 2) |-> IF i <= Len(f.mem) THEN f.mem[i] ELSE 0])

\* encodeBallots of the tests: new(n), addBallot for each ballot, finish
RECURSIVE AddAll(_, _)
AddAll(e, ballots) ==
    IF ballots = <<>> THEN e ELSE AddAll(EncoderAddBallot(e, Head(ballots)), Tail(ballots))

EncodeBallots(ballots) == EncoderFinish(AddAll(EncoderNew(Len(ballots)), ballots))

(***************************************************************************)
(* Scan primitives of config.ts.                                           *)
(***************************************************************************)
\* countBlanks comparing each ballot with the end of the buffer's rows
RECURSIVE CountBlanksToEnd(_, _)
CountBlanksToEnd(mem, i) ==
    IF i >= R32(mem, 0) THEN 0
    ELSE (IF R32(mem, i + 1) = R32(mem, R32(mem, 0) + 1) THEN 1 ELSE 0)
         + CountBlanksToEnd(mem, i + 1)

\* countBlanks(ballots)
RECURSIVE CountBlanksFrom(_, _)
CountBlanksFrom(mem, i) ==
    IF i >= R32(mem, 0) THEN 0
    ELSE (IF R32(mem, i + 1) = R32(mem, i + 2) THEN 1 ELSE 0) + CountBlanksFrom(mem, i + 1)

countBlanks(mem) == CountBlanksFrom(mem, 0)

\* the tally loop shared by the mention readers: entries from u32 index i on
RECURSIVE TallyFrom(_, _, _)
TallyFrom(mem, i, tally) ==
    IF i >= Len32(mem) THEN tally
    ELSE TallyFrom(mem, i + 2, MapSet(tally, R32(mem, i), R32(mem, i + 1)))

\* candidateMentions(ballots)
candidateMentions(mem) ==
    TallyFrom(mem, CeilDiv(R32(mem, R32(mem, 0) + 1), 4), <<>>)


(***************************************************************************)
(* The number type of the STV engine.  A vote value is a binary floating   *)
(* point number <<m, e>> = m * 2^e, m odd (or <<0, 0>>), and every         *)
(* operation rounds its exact result to the nearest number with a mantissa *)
(* of FloatBits bits, ties to even, as IEEE 754 does.  float64 has a       *)
(* mantissa of 53 bits; the model keeps the rounding rule and an odd       *)
(* width, so that n / 3 rounds the same way, within TLC's integers.  The   *)
(* exponent is unbounded.                                                  *)
(***************************************************************************)
FloatBits == 11

RECURSIVE BitLen(_)
BitLen(n) == IF n = 0 THEN 0 ELSE 1 + BitLen(n \div 2)

Abs(x) == IF x < 0 THEN -x ELSE x
Sign(x) == IF x < 0 THEN -1 ELSE 1

\* the unique representation with an odd mantissa
RECURSIVE Canon(_, _)
Canon(mag, e) ==
    IF mag = 0 THEN <<0, 0>>
    ELSE IF mag % 2 = 0 THEN Canon(mag \div 2, e + 1)
    ELSE <<mag, e>>

\* mag * 2^e rounded to FloatBits bits, ties to even
FRound(mag, e) ==
    LET s == BitLen(mag) - FloatBits
    IN IF s <= 0 THEN Canon(mag, e)
       ELSE LET q == mag \div (2 ^ s)
                r == mag % (2 ^ s)
                half == 2 ^ (s - 1)
            IN Canon(IF r > half \/ (r = half /\ q % 2 = 1) THEN q + 1 ELSE q, e + s)

FSigned(sign, mag, e) == LET r == FRound(mag, e) IN <<sign * r[1], r[2]>>

\* an integer below 2^FloatBits as a number
FInt(n) == Canon(n, 0)
FZero == <<0, 0>>
FOne == <<1, 0>>

\* the position above the leading bit
FTop(a) == BitLen(Abs(a[1])) + a[2]

FNeg(a) == <<-a[1], a[2]>>

\* a + b: an operand below an eighth of the other's last place is absorbed
FAdd(a, b) ==
    IF a[1] = 0 THEN b
    ELSE IF b[1] = 0 THEN a
    ELSE IF FTop(a) - FTop(b) > FloatBits + 2 THEN a
    ELSE IF FTop(b) - FTop(a) > FloatBits + 2 THEN b
    ELSE LET e0 == IF a[2] <= b[2] THEN a[2] ELSE b[2]
             sum == a[1] * 2 ^ (a[2] - e0) + b[1] * 2 ^ (b[2] - e0)
         IN FSigned(Sign(sum), Abs(sum), e0)

FSub(a, b) == FAdd(a, FNeg(b))

FMul(a, b) == FSigned(Sign(a[1]) * Sign(b[1]), Abs(a[1]) * Abs(b[1]), a[2] + b[2])

\* a / b for b # 0: the quotient to FloatBits + 2 bits and a sticky bit
FDiv(a, b) ==
    IF a[1] = 0 THEN FZero
    ELSE LET k == FloatBits + 2 + BitLen(Abs(b[1])) - BitLen(Abs(a[1]))
             num == Abs(a[1]) * 2 ^ k
             q == num \div Abs(b[1])
             sticky == IF num % Abs(b[1]) = 0 THEN 0 ELSE 1
         IN FSigned(Sign(a[1]) * Sign(b[1]), 2 * q + sticky, a[2] - b[2] - k - 1)

\* a < b and a <= b: the sign of a - b survives the rounding
FLt(a, b) == FSub(a, b)[1] < 0
FLe(a, b) == FSub(a, b)[1] <= 0

\* let total = 0; for (...) total += s[i]
RECURSIVE FSumFrom(_, _, _)
FSumFrom(s, i, total) ==
    IF i > Len(s) THEN total ELSE FSumFrom(s, i + 1, FAdd(total, s[i]))

FSum(s) == FSumFrom(s, 1, FZero)

(***************************************************************************)
(* Scan primitives of single-transferable-vote.ts.                         *)
(***************************************************************************)
\* forAllBallots: the [start, end) word range handed to the closure for
\* ballot i; the last ballot's range ends at the end of the buffer
BallotStart16(mem, i) == R32(mem, i + 1) \div 2

BallotEnd16(mem, i) ==
    (IF i < R32(mem, 0) - 1 THEN R32(mem, i + 2) ELSE ByteLength(mem)) \div 2

\* the loop of scanNthPreferences over one ballot: i advances by two per
\* iteration (the for-loop's i++ and the i++ closing the body); 0 is null
RECURSIVE NthPrefLoop(_, _, _, _, _, _)
NthPrefLoop(mem, i, end, cands, n, higherPreferences) ==
    IF i >= end THEN 0
    ELSE IF R16(mem, i) \in cands
         THEN IF higherPreferences >= n THEN R16(mem, i)
              ELSE NthPrefLoop(mem, i + 2, end, cands, n, higherPreferences + 1)
         ELSE NthPrefLoop(mem, i + 2, end, cands, n, higherPreferences)

\* the output array of scanNthPreferences: one entry per ballot, 0 for none
NthPrefAssignments(mem, cands, n) ==
    Array([b \in 1..R32(mem, 0) |->
        NthPrefLoop(mem, BallotStart16(mem, b - 1), BallotEnd16(mem, b - 1), cands, n, 0)])

\* the tally a scan returns: one count per nonzero assignment, keys in
\* order of first occurrence
RECURSIVE TallyOf(_, _)
TallyOf(assignments, tally) ==
    IF assignments = <<>> THEN tally
    ELSE TallyOf(Tail(assignments),
                 IF Head(assignments) = 0 THEN tally
                 ELSE MapSet(tally, Head(assignments), MapGet0(tally, Head(assignments)) + 1))

\* scanNthPreferences(ballots, candidates, n)
scanNthPreferences(mem, cands, n) == TallyOf(NthPrefAssignments(mem, cands, n), <<>>)

\* the loop of scanNextPreferences over one ballot
RECURSIVE NextPrefLoop(_, _, _, _, _, _)
NextPrefLoop(mem, i, end, cands, given, hasGivenCandidate) ==
    IF i >= end THEN 0
    ELSE IF R16(mem, i) = given THEN NextPrefLoop(mem, i + 1, end, cands, given, TRUE)
    ELSE IF hasGivenCandidate /\ R16(mem, i) \in cands THEN R16(mem, i)
    ELSE NextPrefLoop(mem, i + 1, end, cands, given, hasGivenCandidate)

\* the output array of scanNextPreferences
NextPrefAssignments(mem, cands, given) ==
    Array([b \in 1..R32(mem, 0) |->
        NextPrefLoop(mem, BallotStart16(mem, b - 1), BallotEnd16(mem, b - 1), cands, given, FALSE)])

\* scanNextPreferences(ballots, candidates, givenCandidate, output)
scanNextPreferences(mem, cands, given) == TallyOf(NextPrefAssignments(mem, cands, given), <<>>)

(***************************************************************************)
(* VoteValues: values[c][i] is the table cell of candidate c and ballot i, *)
(* candValues[c] the row sum kept beside it (RAbsent: no map entry),       *)
(* calls the number of transferVotes calls made on the object so far.      *)
(***************************************************************************)
RAbsent == <<0, 1>>

\* Map.get(c) || 0 on a map of vote values
ValOr0(candValues, c) == IF candValues[c] = RAbsent THEN FZero ELSE candValues[c]

\* new VoteValues(candidates, firstPreferenceTally, firstPreferenceAssignments)
VoteValuesNew(candSet, tally, assignments) ==
    [values |-> Table(candSet, [c \in candSet |->
                    Array([i \in 1..Len(assignments) |->
                        IF assignments[i] = c THEN FOne ELSE FZero])]),
     candValues |-> Table(candSet, [c \in candSet |->
                    IF MapHas(tally, c) THEN FInt(MapGet0(tally, c)) ELSE RAbsent]),
     calls |-> 0]

\* before the constructor has run
NoVoteValues == [values |-> <<>>, candValues |-> <<>>, calls |-> 0]

\* the amount transferVotes moves on ballot i
TransferredAmount(vv, from, to, amount, next, i) ==
    IF vv.values[from][i] # FZero /\ next[i] = to
    THEN FMul(vv.values[from][i], amount) ELSE FZero

\* transferVotes without the subtraction from the source row and cells
TransferVotesKeepingSource(vv, from, to, amount, next) ==
    LET moved == Array([i \in 1..Len(next) |->
                            TransferredAmount(vv, from, to, amount, next, i)])
    IN [values |-> [vv.values EXCEPT
                      ![to] = Array([i \in 1..Len(next) |-> FAdd(vv.values[to][i], moved[i])])],
        candValues |-> [vv.candValues EXCEPT
                      ![to] = FAdd(ValOr0(vv.candValues, to), FSum(moved))],
        calls |-> vv.calls + 1]

\* VoteValues.transferVotes(from, to, perVoteTransferAmount, i => next[i] === to)
TransferVotes(vv, from, to, amount, next) ==
    LET moved == Array([i \in 1..Len(next) |->
                            TransferredAmount(vv, from, to, amount, next, i)])
        total == FSum(moved)
    IN [values |-> [vv.values EXCEPT
                      ![from] = Array([i \in 1..Len(next) |-> FSub(vv.values[from][i], moved[i])]),
                      ![to] = Array([i \in 1..Len(next) |-> FAdd(vv.values[to][i], moved[i])])],
        candValues |-> [vv.candValues EXCEPT
                      ![from] = FSub(ValOr0(vv.candValues, from), total),
                      ![to] = FAdd(ValOr0(vv.candValues, to), total)],
        calls |-> vv.calls + 1]

\* for (const otherCand of nextPreferences.keys()) voteValues.transferVotes(...)
RECURSIVE TransferToAll(_, _, _, _, _)
TransferToAll(vv, from, amount, next, keys) ==
    IF keys = <<>> THEN vv
    ELSE TransferToAll(TransferVotes(vv, from, Head(keys)[1], amount, next),
                       from, amount, next, Tail(keys))


(***************************************************************************)
(* The STV engine (single-transferable-vote.ts).                           *)
(***************************************************************************)
\* the tieBreaker argument: null, or an array of ids
NoTieBreaker == [given |-> FALSE, order |-> <<>>]
TieBreakerOf(order) == [given |-> TRUE, order |-> order]

\* findCandidatesWithFewestVotes on the vote values
FewestByValue(remaining, candValues) ==
    FilterSeq(remaining,
        {c \in Range(remaining) :
            \A o \in Range(remaining) : FLe(ValOr0(candValues, c), ValOr0(candValues, o))})

\* findCandidatesWithFewestVotes on an n-th preference tally
FewestByTally(remaining, tally) ==
    FilterSeq(remaining,
        {c \in Range(remaining) :
            \A o \in Range(remaining) : MapGet0(tally, c) <= MapGet0(tally, o)})

\* one insertion step of Array.prototype.sort with the tie-breaker
\* comparator: x moves left past every element whose index is greater; a
\* comparison with an id that is not in the tie-breaker returns 0 and
\* records both ids as missing.  ECMAScript leaves the comparisons a sort
\* makes to the engine: these are the comparisons of an insertion sort, and
\* every stable sort gives the same order when no id is missing
RECURSIVE InsertByTieBreaker(_, _, _, _, _)
InsertByTieBreaker(sorted, j, x, order, missing) ==
    IF j = 0 THEN [sorted |-> <<x>> \o sorted, missing |-> missing]
    ELSE LET leftIndex == IndexOf(order, sorted[j])
             rightIndex == IndexOf(order, x)
         IN IF leftIndex = -1 \/ rightIndex = -1
            THEN [sorted |-> SubSeq(sorted, 1, j) \o <<x>> \o SubSeq(sorted, j + 1, Len(sorted)),
                  missing |-> SetAdd(SetAdd(missing, sorted[j]), x)]
            ELSE IF leftIndex - rightIndex > 0
            THEN InsertByTieBreaker(sorted, j - 1, x, order, missing)
            ELSE [sorted |-> SubSeq(sorted, 1, j) \o <<x>> \o SubSeq(sorted, j + 1, Len(sorted)),
                  missing |-> missing]

RECURSIVE SortByTieBreakerFrom(_, _, _, _)
SortByTieBreakerFrom(sorted, rest, order, missing) ==
    IF rest = <<>> THEN [sorted |-> sorted, missing |-> missing]
    ELSE LET r == InsertByTieBreaker(sorted, Len(sorted), Head(rest), order, missing)
         IN SortByTieBreakerFrom(r.sorted, Tail(rest), order, r.missing)

\* sortByTieBreaker(candidates, tieBreaker): the array sorted in place and
\* the missing ids; the status is IncompleteTieBreaker iff missing is not empty
sortByTieBreaker(cands, order) == SortByTieBreakerFrom(<<>>, cands, order, <<>>)

\* .sort(([, a], [, b]) => b - a): stable, descending by vote value
RECURSIVE InsertDesc(_, _, _, _)
InsertDesc(sorted, j, x, candValues) ==
    IF j = 0 THEN <<x>> \o sorted
    ELSE IF FLt(candValues[sorted[j]], candValues[x])
    THEN InsertDesc(sorted, j - 1, x, candValues)
    ELSE SubSeq(sorted, 1, j) \o <<x>> \o SubSeq(sorted, j + 1, Len(sorted))

RECURSIVE SortDescFrom(_, _, _)
SortDescFrom(sorted, rest, candValues) ==
    IF rest = <<>> THEN sorted
    ELSE SortDescFrom(InsertDesc(sorted, Len(sorted), Head(rest), candValues),
                      Tail(rest), candValues)

\* removes from s the elements of drop, then appends drop
RemoveThenAppend(s, drop) == FilterSeq(s, Range(s) \ Range(drop)) \o drop

\* Hagenbach-Bischoff quota
FixedElectionQuota(ballotCount, maxWinners) == FDiv(FInt(ballotCount), FInt(maxWinners + 1))

\* the candidates whose value reaches the quota, highest value first
ReachingQuota(remaining, candValues, quota) ==
    SortDescFrom(<<>>,
        FilterSeq(remaining,
            {c \in Range(remaining) : candValues[c] # RAbsent /\ FLe(quota, candValues[c])}),
        candValues)

\* the candidates whose value exceeds the quota, highest value first
ExceedingQuota(remaining, candValues, quota) ==
    SortDescFrom(<<>>,
        FilterSeq(remaining,
            {c \in Range(remaining) : candValues[c] # RAbsent /\ FLt(quota, candValues[c])}),
        candValues)

\* candValues.get(list[index]) where the index may be outside the list
ValueAt(list, index0, candValues) ==
    IF index0 >= 0 /\ index0 < Len(list) THEN candValues[list[index0 + 1]] ELSE RAbsent

\* electUsingFixedQuota: the status, the newly elected, and the two sets
electUsingFixedQuota(remaining, candValues, quota, maxWinners, tieBreaker, elected) ==
    LET newlyElected == ExceedingQuota(remaining, candValues, quota)
        maxNewlyElected == maxWinners - Len(elected)
        stillIncludedValue == ValueAt(newlyElected, maxNewlyElected - 1, candValues)
        boundaryTie ==
            /\ Len(elected) + Len(newlyElected) > maxWinners
            /\ stillIncludedValue = ValueAt(newlyElected, maxNewlyElected, candValues)
        ambiguous == FilterSeq(newlyElected,
            {c \in Range(newlyElected) : candValues[c] = stillIncludedValue})
        sorted == sortByTieBreaker(ambiguous, tieBreaker.order)
        final ==
            IF boundaryTie
            THEN Prefix(RemoveThenAppend(Prefix(newlyElected, maxNewlyElected), sorted.sorted),
                        maxNewlyElected)
            ELSE newlyElected
    IN IF boundaryTie /\ ~tieBreaker.given
       THEN [status |-> "tie-breaker-needed", tiedNodes |-> ambiguous, missing |-> <<>>,
             value |-> <<>>, elected |-> elected, remaining |-> remaining]
       ELSE IF boundaryTie /\ sorted.missing # <<>>
       THEN [status |-> "incomplete-tie-breaker", tiedNodes |-> <<>>, missing |-> sorted.missing,
             value |-> <<>>, elected |-> elected, remaining |-> remaining]
       ELSE [status |-> "success", tiedNodes |-> <<>>, missing |-> <<>>,
             value |-> final,
             elected |-> elected \o final,
             remaining |-> FilterSeq(remaining, Range(remaining) \ Range(final))]

\* the descent of findCandidateToEliminate through the n-th preferences of
\* the original candidates
RECURSIVE FewestDescent(_, _, _, _, _)
FewestDescent(fewest, n, remaining, original, mem) ==
    IF Len(fewest) <= 1 THEN fewest
    ELSE LET counts == scanNthPreferences(mem, original, n)
         IN IF counts = <<>> THEN fewest
            ELSE FewestDescent(FewestByTally(remaining, counts), n + 1, remaining, original, mem)

\* an elimination that follows a given tie-breaker among all remaining
\* candidates, tied or not
findCandidateByTieBreaker(remaining, original, mem, candValues, tieBreaker) ==
    LET fewest == FewestDescent(FewestByValue(remaining, candValues), 0, remaining, original, mem)
        sorted == sortByTieBreaker(remaining, tieBreaker.order)
    IN IF ~tieBreaker.given /\ Len(fewest) > 1
       THEN [status |-> "tie-breaker-needed", tiedNodes |-> fewest, missing |-> <<>>, value |-> 0]
       ELSE IF ~tieBreaker.given
       THEN [status |-> "success", tiedNodes |-> <<>>, missing |-> <<>>, value |-> fewest[1]]
       ELSE IF sorted.missing # <<>>
       THEN [status |-> "incomplete-tie-breaker", tiedNodes |-> <<>>,
             missing |-> sorted.missing, value |-> 0]
       ELSE [status |-> "success", tiedNodes |-> <<>>, missing |-> <<>>,
             value |-> sorted.sorted[Len(sorted.sorted)]]

\* findCandidateToEliminate
findCandidateToEliminate(remaining, original, mem, candValues, tieBreaker) ==
    LET fewest == FewestDescent(FewestByValue(remaining, candValues), 0, remaining, original, mem)
        sorted == sortByTieBreaker(fewest, tieBreaker.order)
    IN IF Len(fewest) > 1 /\ ~tieBreaker.given
       THEN [status |-> "tie-breaker-needed", tiedNodes |-> fewest, missing |-> <<>>, value |-> 0]
       ELSE IF Len(fewest) > 1 /\ sorted.missing # <<>>
       THEN [status |-> "incomplete-tie-breaker", tiedNodes |-> <<>>,
             missing |-> sorted.missing, value |-> 0]
       ELSE IF Len(fewest) > 1
       THEN [status |-> "success", tiedNodes |-> <<>>, missing |-> <<>>,
             value |-> sorted.sorted[Len(sorted.sorted)]]
       ELSE [status |-> "success", tiedNodes |-> <<>>, missing |-> <<>>, value |-> fewest[1]]

\* the surplus transfer of one elected candidate (points 8 and 9)
TransferSurplus(vv, electedCand, quota, remaining, mem) ==
    LET totalVoteValue == vv.candValues[electedCand]
        surplusVoteValue == FSub(totalVoteValue, quota)
        perVoteTransferAmount == FDiv(surplusVoteValue, totalVoteValue)
    IN TransferToAll(vv, electedCand, perVoteTransferAmount,
                     NextPrefAssignments(mem, Range(remaining), electedCand),
                     scanNextPreferences(mem, Range(remaining), electedCand))

\* for (const electedCand of quotaElected) { ... }
RECURSIVE TransferSurpluses(_, _, _, _, _)
TransferSurpluses(vv, quotaElected, quota, remaining, mem) ==
    IF quotaElected = <<>> THEN vv
    ELSE TransferSurpluses(TransferSurplus(vv, Head(quotaElected), quota, remaining, mem),
                           Tail(quotaElected), quota, remaining, mem)

\* the transfer of all votes of an eliminated candidate
TransferEliminated(vv, candidate, remaining, mem) ==
    TransferToAll(vv, candidate, FOne,
                  NextPrefAssignments(mem, Range(remaining), candidate),
                  scanNextPreferences(mem, Range(remaining), candidate))

ElectWithQuotaEvent(elected, candValues, quota) ==
    [type |-> "elect-with-quota", elected |-> elected, candidate |-> 0,
     values |-> candValues, quota |-> quota]

ElectRestEvent(elected) ==
    [type |-> "elect-rest", elected |-> elected, candidate |-> 0,
     values |-> <<>>, quota |-> FZero]

EliminateEvent(candidate, candValues) ==
    [type |-> "eliminate", elected |-> <<>>, candidate |-> candidate,
     values |-> candValues, quota |-> FZero]


(***************************************************************************)
(* singleTransferableVote as a state machine: StvStart runs the function   *)
(* up to the main loop, StvLoop is one pass of the outer while-loop up to  *)
(* its elimination loop, StvEliminate one pass of the elimination loop.    *)
(***************************************************************************)
StvIdle ==
    [pc |-> "idle", maxWinners |-> 0, candidates |-> <<>>, tieBreaker |-> NoTieBreaker,
     elected |-> <<>>, remaining |-> <<>>, vv |-> NoVoteValues, quota |-> FZero,
     quotaElected |-> <<>>, events |-> <<>>,
     status |-> "none", winners |-> <<>>, tiedNodes |-> <<>>, missing |-> <<>>]

\* return { status: Success, value: { winners, events } }
StvSuccess(s, winners, events) ==
    [s EXCEPT !.pc = "done", !.status = "success", !.winners = winners, !.events = events]

\* return of a TieBreakerNeeded or IncompleteTieBreaker result
StvFail(s, r) ==
    [s EXCEPT !.pc = "done", !.status = r.status, !.tiedNodes = r.tiedNodes,
              !.missing = r.missing]

\* the first election and the state the main loop starts from
StvElectedFirst(s0, vv, quota, r) ==
    IF r.status # "success"
    THEN StvFail([s0 EXCEPT !.remaining = s0.candidates, !.vv = vv, !.quota = quota], r)
    ELSE [s0 EXCEPT !.pc = "loop", !.elected = r.elected, !.remaining = r.remaining,
                    !.vv = vv, !.quota = quota, !.quotaElected = r.value,
                    !.events = <<ElectWithQuotaEvent(r.value, vv.candValues, quota)>>]

\* Hagenbach-Bischoff quota (point 5) and the first election (point 6)
StvTallied(s0, ballotCount, vv) ==
    StvElectedFirst(s0, vv, FixedElectionQuota(ballotCount, s0.maxWinners),
                    electUsingFixedQuota(s0.candidates, vv.candValues,
                                         FixedElectionQuota(ballotCount, s0.maxWinners),
                                         s0.maxWinners, s0.tieBreaker, <<>>))

\* the first-preference scan and the table of vote values
StvScanned(s0, mem, assignments) ==
    StvTallied(s0, R32(mem, 0),
               VoteValuesNew(Range(s0.candidates), TallyOf(assignments, <<>>), assignments))

\* singleTransferableVote up to its main loop
StvEntered(maxWinners, candidates, mem, tieBreaker) ==
    IF maxWinners >= Len(candidates)
    THEN StvSuccess([StvIdle EXCEPT !.maxWinners = maxWinners,
                                    !.candidates = candidates,
                                    !.tieBreaker = tieBreaker],
                    candidates, <<ElectRestEvent(candidates)>>)
    ELSE StvScanned([StvIdle EXCEPT !.maxWinners = maxWinners,
                                    !.candidates = candidates,
                                    !.tieBreaker = tieBreaker],
                    mem, NthPrefAssignments(mem, Range(candidates), 0))

StvStart(maxWinners, candidates, tieBreaker) ==
    /\ buf # <<>>
    /\ stv.pc = "idle"
    /\ stv' = StvEntered(maxWinners, candidates, buf, tieBreaker)
    /\ UNCHANGED <<enc, added, buf, rp, tm, cv>>

\* for (const cand of remainingCandidates) electedCandidates.add(cand)
RECURSIVE AddAllTo(_, _)
AddAllTo(set, items) == IF items = <<>> THEN set ELSE AddAllTo(SetAdd(set, Head(items)), Tail(items))

\* the election after the surplus transfers, up to the elimination loop
StvLoopElected(s, vv, r) ==
    LET events == Append(s.events, ElectWithQuotaEvent(r.value, vv.candValues, s.quota))
        s1 == [s EXCEPT !.vv = vv, !.elected = r.elected, !.remaining = r.remaining,
                        !.quotaElected = r.value, !.events = events]
    IN IF r.status # "success" THEN StvFail([s EXCEPT !.vv = vv], r)
       ELSE IF Len(r.elected) >= s.maxWinners THEN StvSuccess(s1, r.elected, events)
       ELSE IF r.value = <<>> /\ r.remaining # <<>> THEN [s1 EXCEPT !.pc = "elim"]
       ELSE s1

\* elect again using fixed quota (point 10)
StvLoopTransferred(s, vv) ==
    StvLoopElected(s, vv, electUsingFixedQuota(s.remaining, vv.candValues, s.quota,
                                               s.maxWinners, s.tieBreaker, s.elected))

\* one pass of the outer loop, up to its elimination loop
StvLooped(s, mem) ==
    IF Len(s.elected) + Len(s.remaining) <= s.maxWinners
    THEN StvSuccess([s EXCEPT !.elected = AddAllTo(s.elected, s.remaining)],
                    AddAllTo(s.elected, s.remaining),
                    Append(s.events, ElectRestEvent(s.remaining)))
    ELSE StvLoopTransferred(s, TransferSurpluses(s.vv, s.quotaElected, s.quota,
                                                 s.remaining, mem))

StvLoop ==
    /\ stv.pc = "loop"
    /\ stv' = StvLooped(stv, buf)
    /\ UNCHANGED <<enc, added, buf, rp, tm, cv>>

\* an elimination that leaves the candidate among the remaining ones
KeepEliminated(remaining, candidateToEliminate) == remaining

\* remainingCandidates.delete(candidateToEliminate)
DeleteEliminated(remaining, candidateToEliminate) == SetDel(remaining, candidateToEliminate)

\* the election after an elimination and the exit of the elimination loop
StvEliminateElected(s, e, vv, r) ==
    LET remaining == DeleteEliminated(s.remaining, e.value)
        events1 == Append(s.events, EliminateEvent(e.value, vv.candValues))
        events2 == Append(events1, ElectWithQuotaEvent(r.value, vv.candValues, s.quota))
        s1 == [s EXCEPT !.vv = vv, !.elected = r.elected, !.remaining = r.remaining,
                        !.quotaElected = r.value, !.events = events2]
    IN IF r.status # "success"
       THEN StvFail([s EXCEPT !.vv = vv, !.remaining = remaining, !.events = events1], r)
       ELSE IF Len(r.elected) >= s.maxWinners THEN [s1 EXCEPT !.pc = "loop"]
       ELSE IF r.value # <<>> THEN [s1 EXCEPT !.pc = "loop"]
       ELSE IF r.remaining # <<>> THEN s1
       ELSE [s1 EXCEPT !.pc = "loop"]

\* the election among the candidates left after the elimination
StvEliminateTransferred(s, e, vv) ==
    StvEliminateElected(s, e, vv,
                        electUsingFixedQuota(DeleteEliminated(s.remaining, e.value), vv.candValues,
                                             s.quota, s.maxWinners, s.tieBreaker, s.elected))

\* remove the candidate with the fewest votes and transfer their votes (point 11)
StvEliminateFound(s, mem, e) ==
    IF e.status # "success" THEN StvFail(s, e)
    ELSE StvEliminateTransferred(s, e, TransferEliminated(s.vv, e.value,
                                                          DeleteEliminated(s.remaining, e.value), mem))

\* one pass of the elimination loop
StvEliminated(s, mem) ==
    StvEliminateFound(s, mem, findCandidateToEliminate(s.remaining, Range(s.candidates), mem,
                                                       s.vv.candValues, s.tieBreaker))

StvEliminate ==
    /\ stv.pc = "elim"
    /\ stv' = StvEliminated(stv, buf)
    /\ UNCHANGED <<enc, added, buf, rp, tm, cv>>

\* the loops of singleTransferableVote run to the return
RECURSIVE StvRunFrom(_, _)
StvRunFrom(s, mem) ==
    IF s.pc = "loop" THEN StvRunFrom(StvLooped(s, mem), mem)
    ELSE IF s.pc = "elim" THEN StvRunFrom(StvEliminated(s, mem), mem)
    ELSE s

\* singleTransferableVote(maxWinners, candidates, ballots, tieBreaker)
singleTransferableVote(maxWinners, candidates, mem, tieBreaker) ==
    StvRunFrom(StvEntered(maxWinners, candidates, mem, tieBreaker), mem)


(***************************************************************************)
(* thresholdMajority (threshold-majority.ts).                              *)
(***************************************************************************)
\* Map.get(key): undefined for a key that is not in the map
RECURSIVE MapGet(_, _)
MapGet(m, k) ==
    IF m = <<>> THEN Undef
    ELSE IF Head(m)[1] = k THEN Head(m)[2]
    ELSE MapGet(Tail(m), k)

\* array[index0], undefined outside the array
ElementAt(list, index0) ==
    IF index0 >= 0 /\ index0 < Len(list) THEN list[index0 + 1] ELSE Undef

\* the mention table read from u32 index offset / 4, the quotient not
\* rounded: from a fractional index every read of the typed array is
\* undefined, so the one entry undefined -> undefined is set again and again
TallyUnrounded(mem, offset) ==
    IF offset = Undef THEN <<>>
    ELSE IF offset % 4 = 0 THEN TallyFrom(mem, offset \div 4, <<>>)
    ELSE IF offset \div 4 < Len32(mem) THEN <<<<Undef, Undef>>>>
    ELSE <<>>

\* tally.get(c) || 0
MentionsOr0(tally, c) == IF MapGet(tally, c) = Undef THEN 0 ELSE MapGet(tally, c)

\* .sort((a, b) => aMentions - bMentions): stable, ascending by mentions
RECURSIVE InsertAsc(_, _, _, _)
InsertAsc(sorted, j, x, tally) ==
    IF j = 0 THEN <<x>> \o sorted
    ELSE IF MentionsOr0(tally, sorted[j]) - MentionsOr0(tally, x) > 0
    THEN InsertAsc(sorted, j - 1, x, tally)
    ELSE SubSeq(sorted, 1, j) \o <<x>> \o SubSeq(sorted, j + 1, Len(sorted))

RECURSIVE SortAscFrom(_, _, _)
SortAscFrom(sorted, rest, tally) ==
    IF rest = <<>> THEN sorted
    ELSE SortAscFrom(InsertAsc(sorted, Len(sorted), Head(rest), tally), Tail(rest), tally)

TmIdle ==
    [pc |-> "idle", maxWinners |-> 0, candidates |-> <<>>, candidatesAfter |-> <<>>,
     tieBreaker |-> NoTieBreaker, status |-> "none", winners |-> <<>>, tally |-> <<>>,
     tiedNodes |-> <<>>, missing |-> <<>>]

\* thresholdMajority(maxWinners, candidates, ballots, tieBreaker): the result
\* and the candidates array as the call leaves it
thresholdMajority(maxWinners, candidates, mem, tieBreaker) ==
    LET tally == TallyUnrounded(mem, R32(mem, 1 + R32(mem, 0)))
        sortedCandidates == SortAscFrom(<<>>, candidates, tally)
        stillIncluded == ElementAt(sortedCandidates, maxWinners - 1)
        firstExcluded == ElementAt(sortedCandidates, maxWinners)
        stillIncludedValue == MapGet(tally, stillIncluded)
        tie == stillIncludedValue = MapGet(tally, firstExcluded)
        ambiguousCandidates ==
            FilterSeq(sortedCandidates,
                      {c \in Range(sortedCandidates) : MapGet(tally, c) = stillIncludedValue})
        byTieBreaker == sortByTieBreaker(candidates, tieBreaker.order)
        reordered == RemoveThenAppend(Prefix(sortedCandidates, maxWinners), ambiguousCandidates)
        r == [TmIdle EXCEPT !.pc = "done", !.maxWinners = maxWinners,
                            !.candidates = candidates, !.candidatesAfter = candidates,
                            !.tieBreaker = tieBreaker, !.tally = tally]
    IN IF tie /\ ~tieBreaker.given
       THEN [r EXCEPT !.status = "tie-breaker-needed", !.tiedNodes = ambiguousCandidates]
       ELSE IF tie /\ byTieBreaker.missing # <<>>
       THEN [r EXCEPT !.status = "incomplete-tie-breaker", !.missing = byTieBreaker.missing,
                      !.candidatesAfter = byTieBreaker.sorted]
       ELSE IF tie
       THEN [r EXCEPT !.status = "success", !.winners = Prefix(reordered, maxWinners),
                      !.candidatesAfter = byTieBreaker.sorted]
       ELSE [r EXCEPT !.status = "success", !.winners = Prefix(sortedCandidates, maxWinners)]

TmRun(maxWinners, candidates, tieBreaker) ==
    /\ buf # <<>>
    /\ tm.pc = "idle"
    /\ tm' = thresholdMajority(maxWinners, candidates, buf, tieBreaker)
    /\ UNCHANGED <<enc, added, buf, stv, rp, cv>>


(***************************************************************************)
(* rankedPairs (ranked-pairs.ts).  The ranked pairs graph is a function    *)
(* from the pairs <<cand, otherCand>>, otherCand < cand, to their edge     *)
(* data; the lock graph is the sequence of its edges <<from, to>> in the   *)
(* order of their insertion.                                               *)
(***************************************************************************)
\* candidates.sort((a, b) => a - b)
RECURSIVE InsertNumeric(_, _, _)
InsertNumeric(sorted, j, x) ==
    IF j = 0 THEN <<x>> \o sorted
    ELSE IF sorted[j] - x > 0 THEN InsertNumeric(sorted, j - 1, x)
    ELSE SubSeq(sorted, 1, j) \o <<x>> \o SubSeq(sorted, j + 1, Len(sorted))

RECURSIVE SortNumericFrom(_, _)
SortNumericFrom(sorted, rest) ==
    IF rest = <<>> THEN sorted
    ELSE SortNumericFrom(InsertNumeric(sorted, Len(sorted), Head(rest)), Tail(rest))

SortNumeric(s) == SortNumericFrom(<<>>, s)

\* filterCandidates letting every candidate through
KeepAllCandidates(candidates, mem) == candidates

\* filterCandidates(candidates, ballots): undefined >= threshold is false
filterCandidates(candidates, mem) ==
    LET ballotCount == R32(mem, 0)
        mentions == TallyUnrounded(mem, R32(mem, 1 + ballotCount))
    IN FilterSeq(candidates,
                 {c \in Range(candidates) :
                     MapGet(mentions, c) # Undef /\ 2 * MapGet(mentions, c) >= ballotCount})

\* for (const otherCand of candidates) { if (otherCand >= cand) break; ... }
RECURSIVE PairsBelow(_, _, _)
PairsBelow(cands, cand, j) ==
    IF j > Len(cands) \/ cands[j] >= cand THEN <<>>
    ELSE <<<<cand, cands[j]>>>> \o PairsBelow(cands, cand, j + 1)

\* the pairs the nested loops over the candidates visit, in their order
RECURSIVE PairListFrom(_, _)
PairListFrom(cands, i) ==
    IF i > Len(cands) THEN <<>>
    ELSE PairsBelow(cands, cands[i], 1) \o PairListFrom(cands, i + 1)

PairList(cands) == PairListFrom(cands, 1)

\* buildGraph(candidates)
buildGraph(cands) ==
    [p \in Range(PairList(cands)) |->
        [ballots |-> 0, diff |-> 0, leftWon |-> FALSE, rightWon |-> FALSE]]

\* the loop of compareNodesAccordingToBallot; null is Undef
RECURSIVE CompareLoop(_, _, _, _, _, _, _, _)
CompareLoop(mem, i, maxI, a, b, rankA, rankB, rank) ==
    IF i >= maxI THEN <<rankA, rankB>>
    ELSE LET value == R16(mem, i)
             rankA1 == IF value # 0 /\ value = a THEN rank ELSE rankA
             rankB1 == IF value # 0 /\ value # a /\ value = b THEN rank ELSE rankB
         IN IF rankA1 # Undef /\ rankB1 # Undef THEN <<rankA1, rankB1>>
            ELSE CompareLoop(mem, i + 1, maxI, a, b, rankA1, rankB1,
                             IF value = 0 THEN rank + 1 ELSE rank)

\* the values compareNodesAccordingToBallot returns: a difference of ranks,
\* or Infinity or -Infinity, held as an infinite value of sign 1 or -1
RankDifference(d) == [infinite |-> FALSE, value |-> d]
SignedInfinity(sign) == [infinite |-> TRUE, value |-> sign]

\* the return statements of compareNodesAccordingToBallot with the two
\* infinities exchanged
CompareReturnsExchanged(rankA, rankB) ==
    IF rankA = Undef /\ rankB = Undef THEN RankDifference(0)
    ELSE IF rankA = Undef THEN SignedInfinity(1)
    ELSE IF rankB = Undef THEN SignedInfinity(-1)
    ELSE RankDifference(rankB - rankA)

\* the return statements of compareNodesAccordingToBallot
CompareReturns(rankA, rankB) ==
    IF rankA = Undef /\ rankB = Undef THEN RankDifference(0)
    ELSE IF rankA = Undef THEN SignedInfinity(-1)
    ELSE IF rankB = Undef THEN SignedInfinity(1)
    ELSE RankDifference(rankB - rankA)

\* compareNodesAccordingToBallot(ballots, ballotStart, ballotEnd, a, b)
compareNodesAccordingToBallot(mem, ballotStart, ballotEnd, a, b) ==
    LET r == CompareLoop(mem, ballotStart \div 2, ballotEnd \div 2, a, b, Undef, Undef, 0)
    IN CompareReturns(r[1], r[2])

\* Math.sign of a rank difference or of an infinity
MathSign(d) == IF d.value > 0 THEN 1 ELSE IF d.value < 0 THEN -1 ELSE 0

\* Math.sign(compareNodesAccordingToBallot(ballots16, ballotStart, ballotEnd, a, b))
UnitDiff(mem, ballotStart, ballotEnd, a, b) ==
    MathSign(compareNodesAccordingToBallot(mem, ballotStart, ballotEnd, a, b))

\* the loop over the ballots of applyBallots
RECURSIVE ApplyBallotsFrom(_, _, _, _)
ApplyBallotsFrom(graph, mem, i, emptyBallots) ==
    IF i >= R32(mem, 0) THEN [graph |-> graph, emptyBallots |-> emptyBallots]
    ELSE LET unit == [p \in DOMAIN graph |->
                         UnitDiff(mem, R32(mem, i + 1), R32(mem, i + 2), p[1], p[2])]
             g1 == [p \in DOMAIN graph |->
                       IF unit[p] # 0
                       THEN [graph[p] EXCEPT !.diff = @ + unit[p], !.ballots = @ + 1]
                       ELSE graph[p]]
             isEmpty == \A p \in DOMAIN graph : unit[p] = 0
         IN ApplyBallotsFrom(g1, mem, i + 1, IF isEmpty THEN emptyBallots + 1 ELSE emptyBallots)

\* applyBallots(graph, candidates, ballots)
applyBallots(graph, mem) ==
    LET r == ApplyBallotsFrom(graph, mem, 0, 0)
    IN [status |-> IF 2 * r.emptyBallots >= R32(mem, 0) THEN "majority-empty" ELSE "success",
        graph |-> r.graph]

\* applyWinners(graph, candidates, tieBreaker), from the k-th pair on
RECURSIVE ApplyWinnersFrom(_, _, _, _)
ApplyWinnersFrom(graph, pairs, k, tieBreaker) ==
    IF k > Len(pairs) THEN [status |-> "success", graph |-> graph, pairs |-> <<>>, missing |-> <<>>]
    ELSE LET p == pairs[k]
             data == graph[p]
             rankA == IndexOf(tieBreaker.order, p[1])
             rankB == IndexOf(tieBreaker.order, p[2])
             left == [graph EXCEPT ![p].leftWon = TRUE]
             right == [graph EXCEPT ![p].rightWon = TRUE]
         IN IF data.ballots = 0 THEN ApplyWinnersFrom(graph, pairs, k + 1, tieBreaker)
            ELSE IF data.diff > 0 THEN ApplyWinnersFrom(left, pairs, k + 1, tieBreaker)
            ELSE IF data.diff < 0 THEN ApplyWinnersFrom(right, pairs, k + 1, tieBreaker)
            ELSE IF ~tieBreaker.given
            THEN [status |-> "tie-breaker-needed", graph |-> graph, pairs |-> <<p>>,
                  missing |-> <<>>]
            ELSE IF rankA = -1 \/ rankB = -1
            THEN [status |-> "incomplete-tie-breaker", graph |-> graph, pairs |-> <<>>,
                  missing |-> p]
            ELSE IF rankA < rankB THEN ApplyWinnersFrom(left, pairs, k + 1, tieBreaker)
            ELSE ApplyWinnersFrom(right, pairs, k + 1, tieBreaker)

applyWinners(graph, cands, tieBreaker) == ApplyWinnersFrom(graph, PairList(cands), 1, tieBreaker)

\* the pairs with ballots, and the candidates of those pairs
MentionedPairs(graph, cands) ==
    LET all == PairList(cands)
    IN FilterSeq(all, {p \in Range(all) : graph[p].ballots # 0})

RECURSIVE MentionedOf(_, _)
MentionedOf(pairs, set) ==
    IF pairs = <<>> THEN set
    ELSE MentionedOf(Tail(pairs), SetAdd(SetAdd(set, Head(pairs)[1]), Head(pairs)[2]))

WinningNode(graph, p) == IF graph[p].leftWon THEN p[1] ELSE p[2]
LosingNode(graph, p) == IF graph[p].leftWon THEN p[2] ELSE p[1]

\* queuedPairs.sort((a, b) => Math.abs(pairDiff(b)) - Math.abs(pairDiff(a)))
RECURSIVE InsertByDiff(_, _, _, _)
InsertByDiff(sorted, j, x, graph) ==
    IF j = 0 THEN <<x>> \o sorted
    ELSE IF Abs(graph[x].diff) - Abs(graph[sorted[j]].diff) > 0
    THEN InsertByDiff(sorted, j - 1, x, graph)
    ELSE SubSeq(sorted, 1, j) \o <<x>> \o SubSeq(sorted, j + 1, Len(sorted))

RECURSIVE SortByDiffFrom(_, _, _)
SortByDiffFrom(sorted, rest, graph) ==
    IF rest = <<>> THEN sorted
    ELSE SortByDiffFrom(InsertByDiff(sorted, Len(sorted), Head(rest), graph), Tail(rest), graph)

\* the number of pairs at the head of the queue with the winning difference
RECURSIVE WinningPairs(_, _, _)
WinningPairs(queued, graph, i) ==
    IF i < Len(queued) /\ Abs(graph[queued[i + 1]].diff) = Abs(graph[queued[1]].diff)
    THEN WinningPairs(queued, graph, i + 1)
    ELSE i

\* one insertion step of [...tiedPairs].sort with the comparator on the
\* tie-breaker index of the losing nodes
RECURSIVE InsertTiedPair(_, _, _, _, _, _)
InsertTiedPair(sorted, j, x, graph, order, missing) ==
    IF j = 0 THEN [sorted |-> <<x>> \o sorted, missing |-> missing]
    ELSE LET losingLeft == LosingNode(graph, sorted[j])
             losingRight == LosingNode(graph, x)
             leftIndex == IndexOf(order, losingLeft)
             rightIndex == IndexOf(order, losingRight)
         IN IF leftIndex = -1 \/ rightIndex = -1
            THEN [sorted |-> SubSeq(sorted, 1, j) \o <<x>> \o SubSeq(sorted, j + 1, Len(sorted)),
                  missing |-> SetAdd(SetAdd(missing, losingLeft), losingRight)]
            ELSE IF leftIndex - rightIndex > 0
            THEN InsertTiedPair(sorted, j - 1, x, graph, order, missing)
            ELSE [sorted |-> SubSeq(sorted, 1, j) \o <<x>> \o SubSeq(sorted, j + 1, Len(sorted)),
                  missing |-> missing]

RECURSIVE SortTiedPairsFrom(_, _, _, _, _)
SortTiedPairsFrom(sorted, rest, graph, order, missing) ==
    IF rest = <<>> THEN [sorted |-> sorted, missing |-> missing]
    ELSE LET r == InsertTiedPair(sorted, Len(sorted), Head(rest), graph, order, missing)
         IN SortTiedPairsFrom(r.sorted, Tail(rest), graph, order, r.missing)

\* the while-loop of orderPairs; the two node sets are only tested for
\* membership
RECURSIVE OrderLoop(_, _, _, _, _, _)
OrderLoop(queued, ordered, winningNodes, losingNodes, graph, tieBreaker) ==
    IF queued = <<>>
    THEN [status |-> "success", value |-> ordered, pairs |-> <<>>, missing |-> <<>>]
    ELSE LET n == WinningPairs(queued, graph, 1)
             tied == SubSeq(queued, 1, n)
             rest == SubSeq(queued, n + 1, Len(queued))
             lost == FilterSeq(tied, {p \in Range(tied) : LosingNode(graph, p) \in losingNodes})
             tied1 == FilterSeq(tied, Range(tied) \ Range(lost))
             winning1 == winningNodes \cup {WinningNode(graph, p) : p \in Range(lost)}
             won == FilterSeq(tied1, {p \in Range(tied1) : WinningNode(graph, p) \in winning1})
             tied2 == FilterSeq(tied1, Range(tied1) \ Range(won))
             losing1 == losingNodes \cup {LosingNode(graph, p) : p \in Range(won)}
             s == SortTiedPairsFrom(<<>>, tied2, graph, tieBreaker.order, <<>>)
         IN IF n > 1
            THEN IF Len(tied2) > 1 /\ ~tieBreaker.given
                 THEN [status |-> "tie-breaker-needed", value |-> <<>>, pairs |-> tied2,
                       missing |-> <<>>]
                 ELSE IF Len(tied2) > 1 /\ s.missing # <<>>
                 THEN [status |-> "incomplete-tie-breaker", value |-> <<>>, pairs |-> <<>>,
                       missing |-> s.missing]
                 ELSE OrderLoop(rest,
                                ordered \o lost \o won \o (IF Len(tied2) > 1 THEN s.sorted ELSE tied2),
                                winning1, losing1, graph, tieBreaker)
            ELSE OrderLoop(Tail(queued), Append(ordered, Head(queued)),
                           winningNodes \cup {WinningNode(graph, Head(queued))},
                           losingNodes \cup {LosingNode(graph, Head(queued))},
                           graph, tieBreaker)

\* orderPairs(pairs, graph, tieBreaker)
orderPairs(pairs, graph, tieBreaker) ==
    OrderLoop(SortByDiffFrom(<<>>, pairs, graph), <<>>, {}, {}, graph, tieBreaker)

\* isReachableInAcyclic finding no path at all
NeverReachable(lock, source, target, fuel) == FALSE

\* DiGraph.isReachableInAcyclic(source, target) on the lock graph.  On an
\* acyclic graph the recursion is never deeper than the number of nodes,
\* which is the fuel; on a cyclic graph the code recurses until the stack
\* overflows
RECURSIVE isReachableInAcyclic(_, _, _, _)
isReachableInAcyclic(lock, source, target, fuel) ==
    /\ fuel > 0
    /\ \E k \in 1..Len(lock) :
          /\ lock[k][1] = source
          /\ \/ lock[k][2] = target
             \/ isReachableInAcyclic(lock, lock[k][2], target, fuel - 1)

\* DiGraph.insertEdge(a, b) on the lock graph: an existing edge is kept.
\* The log takes one entry per call that changes the graph.
InsertLockEdge(l, a, b, byTieBreaker) ==
    IF Has(l.lock, <<a, b>>) THEN l
    ELSE [l EXCEPT !.lock = Append(@, <<a, b>>),
                   !.log = Append(@, [edge |-> <<a, b>>, before |-> l.lock,
                                      byTieBreaker |-> byTieBreaker])]

\* for (let [a, b] of orderedPairs): the pairs are locked in from the
\* strongest to the weakest
RECURSIVE LockPairsFrom(_, _, _, _, _)
LockPairsFrom(l, orderedPairs, k, graph, fuel) ==
    IF k > Len(orderedPairs) THEN l
    ELSE LET a == orderedPairs[k][1]
             b == orderedPairs[k][2]
             edgeData == graph[orderedPairs[k]]
             l1 == IF edgeData.leftWon /\ ~isReachableInAcyclic(l.lock, b, a, fuel)
                   THEN InsertLockEdge(l, a, b, FALSE)
                   ELSE IF edgeData.rightWon /\ ~isReachableInAcyclic(l.lock, a, b, fuel)
                   THEN InsertLockEdge(l, b, a, FALSE)
                   ELSE [l EXCEPT !.skipped = Append(@, orderedPairs[k])]
         IN LockPairsFrom(l1, orderedPairs, k + 1, graph, fuel)

\* DiGraph.findRoots()
findRoots(nodes, lock) ==
    FilterSeq(nodes, {n \in Range(nodes) : \A k \in 1..Len(lock) : lock[k][2] # n})

\* DiGraph.getAllEdges()
RECURSIVE getAllEdges(_, _)
getAllEdges(nodes, lock) ==
    IF nodes = <<>> THEN <<>>
    ELSE FilterSeq(lock, {e \in Range(lock) : e[1] = Head(nodes)})
         \o getAllEdges(Tail(nodes), lock)

\* edges between several roots that always prefer the root of lower number
RECURSIVE LockRootsLowestNumber(_, _, _, _, _)
LockRootsLowestNumber(l, missing, rootPairs, k, order) ==
    IF k > Len(rootPairs) THEN [l |-> l, missing |-> missing]
    ELSE LockRootsLowestNumber(InsertLockEdge(l, rootPairs[k][2], rootPairs[k][1], TRUE),
                               missing, rootPairs, k + 1, order)

\* the tie-breaker edges between several roots; a root that is not in the
\* tie-breaker puts its index, -1, into the missing set
RECURSIVE LockRootsFrom(_, _, _, _, _)
LockRootsFrom(l, missing, rootPairs, k, order) ==
    IF k > Len(rootPairs) THEN [l |-> l, missing |-> missing]
    ELSE LET node == rootPairs[k][1]
             otherNode == rootPairs[k][2]
             leftIndex == IndexOf(order, node)
             rightIndex == IndexOf(order, otherNode)
             m1 == IF leftIndex = -1 THEN SetAdd(missing, leftIndex) ELSE missing
             m2 == IF rightIndex = -1 THEN SetAdd(m1, rightIndex) ELSE m1
             l1 == IF leftIndex < rightIndex
                   THEN InsertLockEdge(l, node, otherNode, TRUE)
                   ELSE InsertLockEdge(l, otherNode, node, TRUE)
         IN LockRootsFrom(l1, m2, rootPairs, k + 1, order)

\* the pairs of the TieBreakerNeeded result for several roots
RECURSIVE WinnerPairs(_, _)
WinnerPairs(roundWinners, i) ==
    IF i > Len(roundWinners) THEN <<>>
    ELSE LET node == roundWinners[i]
             below == FilterSeq(roundWinners, {o \in Range(roundWinners) : o < node})
         IN Array([j \in 1..Len(below) |-> <<node, below[j]>>]) \o WinnerPairs(roundWinners, i + 1)

\* lockGraphAndFindRoundWinner(mentionedCandidates, graph, orderedPairs, tieBreaker)
lockGraphAndFindRoundWinner(mentioned, graph, orderedPairs, tieBreaker) ==
    LET l0 == [lock |-> <<>>, log |-> <<>>, skipped |-> <<>>]
        l1 == LockPairsFrom(l0, orderedPairs, 1, graph, Len(mentioned))
        roundWinners == findRoots(mentioned, l1.lock)
        t == LockRootsFrom(l1, <<>>, PairList(SortNumeric(roundWinners)), 1, tieBreaker.order)
        newRoundWinners == findRoots(mentioned, t.l.lock)
        r == [status |-> "success", winner |-> Undef, pairs |-> <<>>, missing |-> <<>>,
              lockGraphEdges |-> <<>>, log |-> l1.log, skipped |-> l1.skipped]
    IN IF Len(roundWinners) = 1
       THEN [r EXCEPT !.winner = roundWinners[1],
                      !.lockGraphEdges = getAllEdges(mentioned, l1.lock)]
       ELSE IF ~tieBreaker.given
       THEN [r EXCEPT !.status = "tie-breaker-needed", !.pairs = WinnerPairs(roundWinners, 1)]
       ELSE IF t.missing # <<>>
       THEN [r EXCEPT !.status = "incomplete-tie-breaker", !.missing = t.missing,
                      !.log = t.l.log]
       ELSE IF Len(newRoundWinners) > 1
       THEN [r EXCEPT !.status = "error", !.log = t.l.log]
       ELSE [r EXCEPT !.winner = ElementAt(newRoundWinners, 0), !.log = t.l.log,
                      !.lockGraphEdges = getAllEdges(mentioned, t.l.lock)]

(***************************************************************************)
(* rankedPairs as a state machine: RpStart runs the function up to its     *)
(* while-loop, RpRound is one pass of the loop.  rp.log holds, for the     *)
(* last round run, every insertion into the lock graph with the graph it   *)
(* was made into.                                                          *)
(***************************************************************************)
\* the round winner left among the candidates of the next round
MentionedKept(mentioned, roundWinner) == mentioned

\* mentionedCandidates.delete(roundWinner)
MentionedWithout(mentioned, roundWinner) == SetDel(mentioned, roundWinner)

RpIdle ==
    [pc |-> "idle", maxWinners |-> 0, seats |-> 0, candidates |-> <<>>,
     candidatesAfter |-> <<>>, sortedCandidates |-> <<>>, tieBreaker |-> NoTieBreaker,
     graph |-> <<>>, pairs |-> <<>>, mentioned |-> <<>>, winners |-> <<>>, rounds |-> <<>>,
     log |-> <<>>, skipped |-> <<>>, status |-> "none", failPairs |-> <<>>, missing |-> <<>>]

\* the pairs with ballots and their candidates; the state the loop starts from
RpWinnersApplied(s0, w) ==
    IF w.status # "success"
    THEN [s0 EXCEPT !.pc = "done", !.status = w.status, !.graph = w.graph,
                    !.failPairs = w.pairs, !.missing = w.missing]
    ELSE [s0 EXCEPT !.pc = "round", !.graph = w.graph,
                    !.pairs = MentionedPairs(w.graph, s0.sortedCandidates),
                    !.mentioned = MentionedOf(MentionedPairs(w.graph, s0.sortedCandidates),
                                              <<>>)]

\* the result of applyBallots, then applyWinners
RpBallotsApplied(s0, b) ==
    IF b.status # "success"
    THEN [s0 EXCEPT !.pc = "done", !.status = b.status, !.graph = b.graph]
    ELSE RpWinnersApplied(s0, applyWinners(b.graph, s0.sortedCandidates, s0.tieBreaker))

\* the seats taken without regard to the number of candidates
RpSeatsAsAsked(maxWinners, sortedCandidates) == maxWinners

\* maxWinners = Math.min(maxWinners, sortedCandidates.length)
RpSeats(maxWinners, sortedCandidates) == Min2(maxWinners, Len(sortedCandidates))

\* the call up to buildGraph and applyBallots
RpFilteredTo(maxWinners, candidates, mem, tieBreaker, sortedCandidates) ==
    RpBallotsApplied([RpIdle EXCEPT !.maxWinners = maxWinners,
                                    !.seats = RpSeats(maxWinners, sortedCandidates),
                                    !.candidates = candidates,
                                    !.candidatesAfter = SortNumeric(candidates),
                                    !.sortedCandidates = sortedCandidates,
                                    !.tieBreaker = tieBreaker],
                     applyBallots(buildGraph(sortedCandidates), mem))

\* rankedPairs up to its while-loop
RpEntered(maxWinners, candidates, mem, tieBreaker) ==
    RpFilteredTo(maxWinners, candidates, mem, tieBreaker,
                 filterCandidates(SortNumeric(candidates), mem))

RpStart(maxWinners, candidates, tieBreaker) ==
    /\ buf # <<>>
    /\ rp.pc = "idle"
    /\ rp' = RpEntered(maxWinners, candidates, buf, tieBreaker)
    /\ UNCHANGED <<enc, added, buf, stv, tm, cv>>

\* the round result: the winner is recorded and removed for the next round
RpRoundLocked(r, o, l) ==
    LET s1 == [r EXCEPT !.log = l.log, !.skipped = l.skipped,
                        !.winners = Append(@, l.winner),
                        !.rounds = Append(@, [winner |-> l.winner, orderedPairs |-> o.value,
                                              lockGraphEdges |-> l.lockGraphEdges])]
    IN IF l.status # "success"
       THEN [r EXCEPT !.pc = "done", !.status = l.status, !.failPairs = l.pairs,
                      !.missing = l.missing, !.log = l.log, !.skipped = l.skipped]
       ELSE IF Len(s1.winners) >= r.seats
       THEN [s1 EXCEPT !.pc = "done", !.status = "success"]
       ELSE [s1 EXCEPT !.pairs = FilterSeq(r.pairs,
                                    {p \in Range(r.pairs) :
                                        p[1] # l.winner /\ p[2] # l.winner}),
                       !.mentioned = MentionedWithout(r.mentioned, l.winner)]

\* the result of orderPairs, then lockGraphAndFindRoundWinner
RpRoundOrdered(r, o) ==
    IF o.status # "success"
    THEN [r EXCEPT !.pc = "done", !.status = o.status, !.failPairs = o.pairs,
                   !.missing = o.missing, !.log = <<>>, !.skipped = <<>>]
    ELSE RpRoundLocked(r, o, lockGraphAndFindRoundWinner(r.mentioned, r.graph, o.value,
                                                         r.tieBreaker))

\* one pass of the while-loop
RpRounded(r) == RpRoundOrdered(r, orderPairs(r.pairs, r.graph, r.tieBreaker))

RpRound ==
    /\ rp.pc = "round"
    /\ rp' = RpRounded(rp)
    /\ UNCHANGED <<enc, added, buf, stv, tm, cv>>

\* the while-loop of rankedPairs run to the return
RECURSIVE RpRunFrom(_)
RpRunFrom(r) == IF r.pc = "round" THEN RpRunFrom(RpRounded(r)) ELSE r

\* rankedPairs(maxWinners, candidates, ballots, tieBreaker)
rankedPairs(maxWinners, candidates, mem, tieBreaker) ==
    RpRunFrom(RpEntered(maxWinners, candidates, mem, tieBreaker))


(***************************************************************************)
(* Configuration predicates (config.ts) and the Yes/No engine (yes-no.ts). *)
(* A Rational is a number or a fraction [n, d]; a division by zero gives   *)
(* Infinity or, for 0 / 0, NaN, and every comparison with NaN is false.    *)
(***************************************************************************)
NumNaN == <<0, 1>>
NumInfinity == <<1, 4096>>

\* a / b in double arithmetic for integers a, b >= 0
NumDiv(a, b) ==
    IF b = 0 THEN (IF a = 0 THEN NumNaN ELSE NumInfinity)
    ELSE FDiv(FInt(a), FInt(b))

Fraction(n, d) == [frac |-> TRUE, n |-> n, d |-> d, value |-> FZero]
Number(x) == [frac |-> FALSE, n |-> 0, d |-> 0, value |-> x]

\* rationalToNumber
rationalToNumber(r) == IF r.frac THEN NumDiv(r.n, r.d) ELSE r.value

\* x >= y and x > y on numbers
NumGe(x, y) == x # NumNaN /\ y # NumNaN /\ FLe(y, x)
NumGt(x, y) == x # NumNaN /\ y # NumNaN /\ FLt(y, x)

\* a threshold that the value itself always passes
passesThresholdOrEqual(r, inclusive, value) ==
    NumGe(rationalToNumber(value), rationalToNumber(r))

\* passesThreshold(r, inclusive, value)
passesThreshold(r, inclusive, value) ==
    IF inclusive THEN NumGe(rationalToNumber(value), rationalToNumber(r))
    ELSE NumGt(rationalToNumber(value), rationalToNumber(r))

\* withinThreshold(r, inclusive, value)
withinThreshold(r, inclusive, value) ==
    IF inclusive THEN NumGe(rationalToNumber(r), rationalToNumber(value))
    ELSE NumGt(rationalToNumber(r), rationalToNumber(value))

\* passesQuorumCheck(config, ballots)
passesQuorumCheck(config, ballots) ==
    passesThreshold(config.quorum, config.quorumInclusive,
                    Number(NumDiv(ballots.count, ballots.voters)))

\* passesBlankCheck(config, ballots)
passesBlankCheck(config, ballots) ==
    withinThreshold(config.blankBallotsLimit, config.blankBallotsLimitInclusive,
                    Number(NumDiv(ballots.blank, ballots.count)))

\* the loop of filterCandidatesByMentions over the candidates
RECURSIVE FilterByMentionsFrom(_, _, _, _, _)
FilterByMentionsFrom(config, candidates, i, mentions, out) ==
    IF i > Len(candidates) THEN out
    ELSE FilterByMentionsFrom(config, candidates, i + 1, mentions,
            IF passesThreshold(config.mentionThreshold, config.mentionThresholdInclusive,
                               Number(NumDiv(MentionsOr0(mentions.mentions, candidates[i]),
                                             mentions.ballotCount)))
            THEN [out EXCEPT !.includedByMentions = Append(@, candidates[i])]
            ELSE [out EXCEPT !.excludedByMentions = Append(@, candidates[i])])

\* filterCandidatesByMentions(config, candidates, ballots)
filterCandidatesByMentions(config, candidates, mem) ==
    FilterByMentionsFrom(config, candidates, 1,
        [mentions |-> candidateMentions(mem), ballotCount |-> R32(mem, 0)],
        [given |-> TRUE, mentions |-> candidateMentions(mem),
         includedByMentions |-> <<>>, excludedByMentions |-> <<>>])

YNB_NO == 1
YNB_YES == 2

\* the pass record of yesNo
YnPass(config, passesMajority, passesVoters) ==
    [result |-> IF config.majorityMustReachBoth THEN passesMajority /\ passesVoters
                ELSE passesMajority \/ passesVoters,
     majority |-> passesMajority,
     voters |-> passesVoters]

\* the thresholds of yesNo on the counts read
YnCounted(config, ballotCount, eligibleVoters, blankCount, tally) ==
    [tally |-> [yes |-> MentionsOr0(tally, YNB_YES), no |-> MentionsOr0(tally, YNB_NO),
                blank |-> blankCount],
     pass |-> YnPass(config,
                passesThreshold(config.majorityBallots, config.majorityBallotsInclusive,
                                Number(NumDiv(MentionsOr0(tally, YNB_YES), ballotCount))),
                passesThreshold(config.majorityVoters, config.majorityVotersInclusive,
                                Number(NumDiv(MentionsOr0(tally, YNB_YES), eligibleVoters))))]

\* yesNo(config, ballots, eligibleVoters)
yesNo(config, mem, eligibleVoters) ==
    YnCounted(config, R32(mem, 0), eligibleVoters, countBlanks(mem),
              TallyUnrounded(mem, R32(mem, R32(mem, 0) + 1)))


(***************************************************************************)
(* runConfigVote (config-vote.ts).                                         *)
(***************************************************************************)
NoMentions ==
    [given |-> FALSE, mentions |-> <<>>, includedByMentions |-> <<>>,
     excludedByMentions |-> <<>>]

NoValue == [winners |-> <<>>]

\* a result without mentions and payload
CvResult(type, status, ballots) ==
    [type |-> type, status |-> status, ballots |-> ballots, mentions |-> NoMentions,
     value |-> NoValue, tiedNodes |-> <<>>, pairs |-> <<>>, missing |-> <<>>]

\* the result built from the return of thresholdMajority; the engine sorted
\* the includedByMentions array it was handed
CvFromTm(base, mentions, r) ==
    [base EXCEPT !.status = r.status,
                 !.mentions = [mentions EXCEPT !.includedByMentions = r.candidatesAfter],
                 !.value = IF r.status = "success"
                           THEN [winners |-> r.winners, tally |-> r.tally] ELSE NoValue,
                 !.tiedNodes = r.tiedNodes,
                 !.missing = r.missing]

\* the result built from the return of rankedPairs; the engine sorted the
\* includedByMentions array it was handed
CvFromRp(base, mentions, r) ==
    [base EXCEPT !.status = r.status,
                 !.mentions = [mentions EXCEPT !.includedByMentions = r.candidatesAfter],
                 !.value = IF r.status = "success"
                           THEN [winners |-> r.winners, rounds |-> r.rounds] ELSE NoValue,
                 !.pairs = r.failPairs,
                 !.missing = r.missing]

\* the result built from the return of singleTransferableVote
CvFromStv(base, mentions, r) ==
    [base EXCEPT !.status = r.status,
                 !.mentions = mentions,
                 !.value = IF r.status = "success"
                           THEN [winners |-> r.winners, events |-> r.events] ELSE NoValue,
                 !.tiedNodes = r.tiedNodes,
                 !.missing = r.missing]

\* the check of the number of filtered candidates and the engine call
CvFiltered(config, mem, tieBreaker, base, mentions) ==
    IF Len(mentions.includedByMentions) < (IF config.type = "rp" THEN 2 ELSE 1)
    THEN [base EXCEPT !.status = "majority-empty", !.mentions = mentions]
    ELSE IF config.type = "tm"
    THEN CvFromTm(base, mentions,
                  thresholdMajority(config.numChosenOptions, mentions.includedByMentions,
                                    mem, tieBreaker))
    ELSE IF config.type = "rp"
    THEN CvFromRp(base, mentions,
                  rankedPairs(config.numChosenOptions, mentions.includedByMentions,
                              mem, tieBreaker))
    ELSE CvFromStv(base, mentions,
                   singleTransferableVote(config.numChosenOptions,
                                          mentions.includedByMentions, mem, tieBreaker))

\* the two gates, the Yes/No route and the mention filter
CvCounted(config, mem, candidates, tieBreaker, ballotCounts) ==
    IF ~passesQuorumCheck(config, ballotCounts)
    THEN CvResult(config.type, "no-quorum", ballotCounts)
    ELSE IF config.type # "yn" /\ ~passesBlankCheck(config, ballotCounts)
    THEN CvResult(config.type, "too-many-blanks", ballotCounts)
    ELSE IF config.type \in {"yn", "ynb"}
    THEN [CvResult(config.type, "success", ballotCounts)
             EXCEPT !.value = yesNo(config, mem, ballotCounts.voters)]
    ELSE CvFiltered(config, mem, tieBreaker, CvResult(config.type, "success", ballotCounts),
                    IF config.type \in {"tm", "rp"}
                    THEN filterCandidatesByMentions(config, candidates, mem)
                    ELSE [given |-> TRUE, mentions |-> candidateMentions(mem),
                          includedByMentions |-> candidates, excludedByMentions |-> <<>>])

\* runConfigVote(config, ballots, eligibleVoters, candidates, tieBreaker)
runConfigVote(config, mem, eligibleVoters, candidates, tieBreaker) ==
    CvCounted(config, mem, candidates, tieBreaker,
              [count |-> R32(mem, 0), blank |-> countBlanks(mem), voters |-> eligibleVoters])

CvIdle ==
    [pc |-> "idle", config |-> [type |-> "none"], eligibleVoters |-> 0, candidates |-> <<>>,
     tieBreaker |-> NoTieBreaker, result |-> CvResult("none", "none", <<>>)]

CvRun(config, eligibleVoters, candidates, tieBreaker) ==
    /\ buf # <<>>
    /\ cv.pc = "idle"
    /\ cv' = [pc |-> "done", config |-> config, eligibleVoters |-> eligibleVoters,
              candidates |-> candidates, tieBreaker |-> tieBreaker,
              result |-> runConfigVote(config, buf, eligibleVoters, candidates, tieBreaker)]
    /\ UNCHANGED <<enc, added, buf, stv, rp, tm>>


(***************************************************************************)
(* runMappedConfigVote (config-vote.ts).  The caller's candidate values    *)
(* are numbers other than the dense ids; undefined is Undef.               *)
(***************************************************************************)
\* the loop that fills remappedCandidates (asIds) or unmappedCandidates
RECURSIVE MapCandidatesFrom(_, _, _, _)
MapCandidatesFrom(m, candidates, candidateId, asIds) ==
    IF candidateId > Len(candidates) THEN m
    ELSE MapCandidatesFrom(IF asIds THEN MapSet(m, candidates[candidateId], candidateId)
                           ELSE MapSet(m, candidateId, candidates[candidateId]),
                           candidates, candidateId + 1, asIds)

\* remappedCandidates: from the caller's values to ids
RemappedCandidates(config, candidates) ==
    IF config.type \in {"yn", "ynb"}
    THEN MapSet(MapSet(<<>>, candidates[1], YNB_NO), candidates[2], YNB_YES)
    ELSE MapCandidatesFrom(<<>>, candidates, 1, TRUE)

\* unmappedCandidates: from ids to the caller's values
UnmappedCandidates(config, candidates) ==
    IF config.type \in {"yn", "ynb"}
    THEN MapSet(MapSet(<<>>, YNB_NO, candidates[1]), YNB_YES, candidates[2])
    ELSE MapCandidatesFrom(<<>>, candidates, 1, FALSE)

\* [...map.values()]
MapValues(m) == Array([i \in 1..Len(m) |-> m[i][2]])

\* the listed items of a rank or of the tie-breaker, as ids
RECURSIVE EncodedItems(_, _)
EncodedItems(items, remapped) ==
    IF items = <<>> THEN <<>>
    ELSE (IF MapHas(remapped, Head(items)) THEN <<MapGet(remapped, Head(items))>> ELSE <<>>)
         \o EncodedItems(Tail(items), remapped)

\* encodedBallot: an array rank without listed items and an unlisted single
\* value are left out
RECURSIVE EncodedBallot(_, _)
EncodedBallot(ballot, remapped) ==
    IF ballot = <<>> THEN <<>>
    ELSE (IF Head(ballot).num
          THEN (IF MapHas(remapped, Head(ballot).ids[1])
                THEN <<NumberRank(MapGet(remapped, Head(ballot).ids[1]))>> ELSE <<>>)
          ELSE (IF EncodedItems(Head(ballot).ids, remapped) # <<>>
                THEN <<ArrayRank(EncodedItems(Head(ballot).ids, remapped))>> ELSE <<>>))
         \o EncodedBallot(Tail(ballot), remapped)

\* the ballots handed to the encoder
EncodedBallots(ballots, remapped) ==
    Array([i \in 1..Len(ballots) |-> EncodedBallot(ballots[i], remapped)])

\* encodedTieBreaker
EncodedTieBreaker(tieBreaker, remapped) ==
    IF tieBreaker.given THEN TieBreakerOf(EncodedItems(tieBreaker.order, remapped))
    ELSE NoTieBreaker

\* array.map(remap) with remap = id => unmappedCandidates.get(id)
RemapNodes(nodes, unmapped) == Array([i \in 1..Len(nodes) |-> MapGet(unmapped, nodes[i])])

\* pairs.map(([a, b]) => [remap(a), remap(b)])
RemapPairs(pairs, unmapped) ==
    Array([i \in 1..Len(pairs) |-> <<MapGet(unmapped, pairs[i][1]),
                                    MapGet(unmapped, pairs[i][2])>>])

\* new Map([...map.entries()].map(([k, v]) => [remap(k), v]))
RECURSIVE RemapKeysFrom(_, _, _)
RemapKeysFrom(out, entries, unmapped) ==
    IF entries = <<>> THEN out
    ELSE RemapKeysFrom(MapSet(out, MapGet(unmapped, Head(entries)[1]), Head(entries)[2]),
                       Tail(entries), unmapped)

\* remapMentions
remapMentions(mentions, unmapped) ==
    [given |-> mentions.given,
     mentions |-> RemapKeysFrom(<<>>, mentions.mentions, unmapped),
     includedByMentions |-> RemapNodes(mentions.includedByMentions, unmapped),
     excludedByMentions |-> RemapNodes(mentions.excludedByMentions, unmapped)]

\* remapTmData
remapTmData(data, unmapped) ==
    [winners |-> RemapNodes(data.winners, unmapped),
     tally |-> RemapKeysFrom(<<>>, data.tally, unmapped)]

\* remapRpRound
remapRpRound(round, unmapped) ==
    [winner |-> MapGet(unmapped, round.winner),
     orderedPairs |-> RemapPairs(round.orderedPairs, unmapped),
     lockGraphEdges |-> RemapPairs(round.lockGraphEdges, unmapped)]

\* remapRpData
remapRpData(data, unmapped) ==
    [winners |-> RemapNodes(data.winners, unmapped),
     rounds |-> Array([i \in 1..Len(data.rounds) |-> remapRpRound(data.rounds[i], unmapped)])]

\* the vote values of an event under the caller's values
RemapValues(values, unmapped) ==
    Table({MapGet(unmapped, c) : c \in DOMAIN values},
          [v \in {MapGet(unmapped, c) : c \in DOMAIN values} |->
              values[CHOOSE c \in DOMAIN values : MapGet(unmapped, c) = v]])

\* an event of singleTransferableVote under the caller's values
RemapStvEvent(event, unmapped) ==
    [event EXCEPT !.elected = RemapNodes(@, unmapped),
                  !.candidate = IF event.type = "eliminate" THEN MapGet(unmapped, @) ELSE @,
                  !.values = RemapValues(@, unmapped)]

\* remapStvData: every id of the value is mapped back
remapStvData(data, unmapped) ==
    [winners |-> RemapNodes(data.winners, unmapped),
     events |-> Array([i \in 1..Len(data.events) |-> RemapStvEvent(data.events[i], unmapped)])]

\* remapResult on a Success result
RemapSuccess(result, unmapped) ==
    IF result.type \in {"yn", "ynb"} THEN result
    ELSE [result EXCEPT !.mentions = remapMentions(@, unmapped),
                        !.value = IF result.type = "tm" THEN remapTmData(@, unmapped)
                                  ELSE IF result.type = "rp" THEN remapRpData(@, unmapped)
                                  ELSE remapStvData(@, unmapped)]

\* remapResult
remapResult(result, unmapped) ==
    IF result.status = "success" THEN RemapSuccess(result, unmapped)
    ELSE IF result.status = "tie-breaker-needed" /\ result.type = "rp"
    THEN [result EXCEPT !.mentions = remapMentions(@, unmapped),
                        !.pairs = RemapPairs(@, unmapped)]
    ELSE IF result.status = "tie-breaker-needed"
    THEN [result EXCEPT !.mentions = remapMentions(@, unmapped),
                        !.tiedNodes = RemapNodes(@, unmapped)]
    ELSE IF result.status = "incomplete-tie-breaker"
    THEN [result EXCEPT !.mentions = remapMentions(@, unmapped),
                        !.missing = RemapNodes(@, unmapped)]
    ELSE IF result.status = "majority-empty"
    THEN [result EXCEPT !.mentions = remapMentions(@, unmapped)]
    ELSE result

\* throw new Error('YNB vote must have 2 candidates (no, yes)')
MappedThrows(config, candidates) == config.type \in {"yn", "ynb"} /\ Len(candidates) # 2

\* encoder.finish() after an addBallot for every ballot
MappedBuffer(config, ballots, candidates) ==
    IF MappedThrows(config, candidates) THEN <<>>
    ELSE EncodeBallots(EncodedBallots(ballots, RemappedCandidates(config, candidates)))

\* the call of runConfigVote and remapResult
MappedRun(config, mem, eligibleVoters, remapped, unmapped, tieBreaker) ==
    remapResult(runConfigVote(config, mem, eligibleVoters, MapValues(remapped),
                              EncodedTieBreaker(tieBreaker, remapped)),
                unmapped)

\* runMappedConfigVote(config, ballots, eligibleVoters, candidates, tieBreaker)
runMappedConfigVote(config, ballots, eligibleVoters, candidates, tieBreaker) ==
    IF MappedThrows(config, candidates) THEN CvResult(config.type, "throws", <<>>)
    ELSE MappedRun(config, MappedBuffer(config, ballots, candidates), eligibleVoters,
                   RemappedCandidates(config, candidates),
                   UnmappedCandidates(config, candidates), tieBreaker)

\* the mapped entry on the caller's ballots; buf is the buffer it encodes
CvRunMapped(config, eligibleVoters, candidates, tieBreaker) ==
    /\ buf = <<>>
    /\ cv.pc = "idle"
    /\ buf' = MappedBuffer(config, added, candidates)
    /\ cv' = [pc |-> "mapped", config |-> config, eligibleVoters |-> eligibleVoters,
              candidates |-> candidates, tieBreaker |-> tieBreaker,
              result |-> runMappedConfigVote(config, added, eligibleVoters, candidates,
                                             tieBreaker)]
    /\ UNCHANGED <<enc, added, stv, rp, tm>>


(***************************************************************************)
(* Inputs.                                                                 *)
(***************************************************************************)
\* the ballots handed to the engines: a blank ballot, full and partial
\* rankings, and rankings with several ids of equal preference
EngineBallots ==
    {<<>>,
     <<ArrayRank(<<1>>), ArrayRank(<<2>>), ArrayRank(<<3>>)>>,
     <<ArrayRank(<<3>>)>>,
     <<ArrayRank(<<1, 2>>), ArrayRank(<<3>>)>>,
     <<ArrayRank(<<3>>), ArrayRank(<<2>>), ArrayRank(<<1>>)>>}

EngineProfiles == SeqsUpTo(EngineBallots, MaxBallots)

CandidateLists == {<<1, 2, 3>>, <<2, 1>>}

TieBreakers == {NoTieBreaker, TieBreakerOf(<<1, 2, 3>>), TieBreakerOf(<<2, 3>>)}

\* the ballots handed to rankedPairs: rankings that leave candidates out,
\* that contradict each other, and that give two ids the same rank
RpBallots ==
    {<<>>,
     <<ArrayRank(<<1>>), ArrayRank(<<2>>), ArrayRank(<<3>>)>>,
     <<ArrayRank(<<3>>), ArrayRank(<<1>>)>>,
     <<ArrayRank(<<1>>), ArrayRank(<<2>>)>>,
     <<ArrayRank(<<3>>)>>,
     <<ArrayRank(<<1, 2>>), ArrayRank(<<3>>)>>}

RpProfiles == SeqsUpTo(RpBallots, MaxBallots)

RpTieBreakers == {NoTieBreaker, TieBreakerOf(<<2, 3, 1>>), TieBreakerOf(<<1, 2>>)}

\* the tie-breakers handed to thresholdMajority: absent, complete in two
\* orders, and incomplete
TmTieBreakers == TieBreakers \cup {TieBreakerOf(<<3, 1, 2>>)}

\* the ballots handed to runConfigVote: blank, a yes or single choice, and a
\* ranking
CvBallots ==
    {<<>>,
     <<ArrayRank(<<2>>)>>,
     <<ArrayRank(<<1>>), ArrayRank(<<2, 3>>)>>}

CvProfiles == SeqsUpTo(CvBallots, MaxBallots)

CvTypes == {"yn", "ynb", "tm", "rp", "stv"}

\* the quorums of the configurations
CvQuorums == {Fraction(0, 1), Fraction(1, 2)}

\* the configurations: every type with a quorum of zero or one half and a
\* blank limit of one half, inclusive or not
CvConfigs ==
    {[type |-> t,
      quorum |-> q, quorumInclusive |-> qi,
      blankBallotsLimit |-> Fraction(1, 2), blankBallotsLimitInclusive |-> bi,
      majorityBallots |-> Fraction(1, 2), majorityBallotsInclusive |-> FALSE,
      majorityVoters |-> Fraction(1, 2), majorityVotersInclusive |-> TRUE,
      majorityMustReachBoth |-> TRUE,
      numChosenOptions |-> 1,
      mentionThreshold |-> Fraction(1, 2), mentionThresholdInclusive |-> TRUE] :
        t \in CvTypes, q \in CvQuorums, qi \in BOOLEAN, bi \in BOOLEAN}

\* the numbers of eligible voters
CvVoters == {0, 2, 4}

\* the eligible voters of the mapped entry
MappedVoters == 4

CvTieBreakers == {NoTieBreaker, TieBreakerOf(<<1, 2, 3>>)}

(***************************************************************************)
(* The encoder as a state machine.                                         *)
(***************************************************************************)
EncNew(count) ==
    /\ ~enc.made
    /\ enc' = EncoderNew(count)
    /\ UNCHANGED <<added, buf, stv, rp, tm, cv>>

EncAddBallot(ranks) ==
    /\ enc.made
    /\ buf = <<>>
    /\ Len(added) < enc.count
    /\ enc' = EncoderAddBallot(enc, ranks)
    /\ added' = Append(added, ranks)
    /\ UNCHANGED <<buf, stv, rp, tm, cv>>

\* addBallot called with any ballot, within the declared count or beyond it;
\* a call that throws adds no ballot
EncAddBallotAny(ranks) ==
    /\ enc.made
    /\ buf = <<>>
    /\ enc.ballotIndex <= enc.count + MaxExtra
    /\ enc' = EncoderAddBallot(enc, ranks)
    /\ added' = IF Throws(ranks) THEN added ELSE Append(added, ranks)
    /\ UNCHANGED <<buf, stv, rp, tm, cv>>

EncFinish ==
    /\ enc.made
    /\ buf = <<>>
    /\ enc' = EncoderWriteMentions(enc)
    /\ buf' = EncoderFinish(enc)
    /\ UNCHANGED <<added, stv, rp, tm, cv>>

\* the ballots handed to addBallot: ranks given as numbers and as arrays,
\* ids in any order within a rank
EncBallots ==
    {<<>>,
     <<NumberRank(1)>>,
     <<ArrayRank(<<1, 2>>), NumberRank(3)>>,
     <<ArrayRank(<<2>>), ArrayRank(<<3, 1>>)>>,
     <<NumberRank(3), NumberRank(2), NumberRank(1)>>}

\* the caller's ballots of the mapped entry: 10, 20 and 30 are candidate
\* values, 40 is never listed
MappedBallots ==
    {<<>>,
     <<ArrayRank(<<10, 20>>), NumberRank(30)>>,
     <<NumberRank(40), ArrayRank(<<20>>)>>,
     <<ArrayRank(<<40>>), NumberRank(30), ArrayRank(<<10, 40>>)>>}

MappedProfiles == SeqsUpTo(MappedBallots, MaxBallots)

MappedCandidateLists == {<<10, 20, 30>>, <<20, 10>>}

MappedTieBreakers ==
    {NoTieBreaker, TieBreakerOf(<<20, 30>>), TieBreakerOf(<<40, 30, 20, 10>>)}

\* the configurations of the mapped entry: every type, any number of ballots
\* is a quorum, at most half of them blank, candidates mentioned on half
MappedConfigs ==
    {[type |-> t,
      quorum |-> Fraction(0, 1), quorumInclusive |-> TRUE,
      blankBallotsLimit |-> Fraction(1, 2), blankBallotsLimitInclusive |-> TRUE,
      majorityBallots |-> Fraction(1, 2), majorityBallotsInclusive |-> FALSE,
      majorityVoters |-> Fraction(1, 2), majorityVotersInclusive |-> TRUE,
      majorityMustReachBoth |-> TRUE,
      numChosenOptions |-> 1,
      mentionThreshold |-> Fraction(1, 2), mentionThresholdInclusive |-> TRUE] :
        t \in CvTypes}

\* the ballots handed to addBallot by a caller that does not keep to valid
\* ids: with the id 0 as a rank and within a rank
EncAnyBallots ==
    EncBallots \cup
    {<<NumberRank(0)>>,
     <<ArrayRank(<<1, 0>>)>>,
     <<NumberRank(2), ArrayRank(<<0, 3>>)>>}

(***************************************************************************)
(* Specifications.                                                         *)
(***************************************************************************)
\* the encoder: new BallotEncoder(count), addBallot calls, finish
InitEnc ==
    /\ enc = NoEnc
    /\ added = <<>>
    /\ buf = <<>>
    /\ stv = StvIdle
    /\ rp = RpIdle
    /\ tm = TmIdle
    /\ cv = CvIdle

NextEnc ==
    \/ \E count \in 0..MaxCount : EncNew(count)
    \/ \E ranks \in EncBallots : EncAddBallot(ranks)
    \/ EncFinish

SpecEnc == InitEnc /\ [][NextEnc]_vars

\* the encoder under any sequence of calls: ids 0, and addBallot calls beyond
\* the declared count
NextEncAny ==
    \/ \E count \in 0..MaxDeclared : EncNew(count)
    \/ \E ranks \in EncAnyBallots : EncAddBallotAny(ranks)
    \/ EncFinish

SpecEncAny == InitEnc /\ [][NextEncAny]_vars

\* singleTransferableVote on every encoded profile
InitStv ==
    /\ enc = NoEnc
    /\ added \in EngineProfiles
    /\ buf = EncodeBallots(added)
    /\ stv = StvIdle
    /\ rp = RpIdle
    /\ tm = TmIdle
    /\ cv = CvIdle

NextStv ==
    \/ \E w \in 1..MaxWinners, c \in CandidateLists, t \in TieBreakers : StvStart(w, c, t)
    \/ StvLoop
    \/ StvEliminate

SpecStv == InitStv /\ [][NextStv]_vars

\* the call is inside the loops of singleTransferableVote
StvRunning == stv.pc \in {"loop", "elim"}

\* a pass of the outer loop or of the elimination loop
StvPass == StvLoop \/ StvEliminate

\* The loops of singleTransferableVote are sequential code that waits for
\* nothing: a pass that can run does run.  This is weak fairness of the
\* passes, WF_vars(StvPass), written out by its definition
\* []<>(~ENABLED <<StvPass>>_vars) \/ []<><<StvPass>>_vars, with the state
\* predicate StvRunning in the place of ENABLED <<StvPass>>_vars: a pass is
\* possible exactly while the call is inside its loops, and it changes the
\* state (StvPassChangesState).  TLC evaluates the operators of the engine
\* under ENABLED without keeping the values of their arguments, which takes
\* it hours here.
StvFairness == []<>(~StvRunning) \/ []<><<StvPass>>_vars

SpecStvFair == SpecStv /\ StvFairness

\* thresholdMajority on every encoded profile
InitTm ==
    /\ enc = NoEnc
    /\ added \in EngineProfiles
    /\ buf = EncodeBallots(added)
    /\ stv = StvIdle
    /\ rp = RpIdle
    /\ tm = TmIdle
    /\ cv = CvIdle

NextTm == \E w \in 1..MaxWinners, c \in CandidateLists, t \in TmTieBreakers : TmRun(w, c, t)

SpecTm == InitTm /\ [][NextTm]_vars

\* runConfigVote on every encoded profile
InitCv ==
    /\ enc = NoEnc
    /\ added \in CvProfiles
    /\ buf = EncodeBallots(added)
    /\ stv = StvIdle
    /\ rp = RpIdle
    /\ tm = TmIdle
    /\ cv = CvIdle

NextCv ==
    \E config \in CvConfigs, v \in CvVoters, c \in CandidateLists, t \in CvTieBreakers :
        CvRun(config, v, c, t)

SpecCv == InitCv /\ [][NextCv]_vars

\* runMappedConfigVote on the caller's ballots
InitMapped ==
    /\ enc = NoEnc
    /\ added \in MappedProfiles
    /\ buf = <<>>
    /\ stv = StvIdle
    /\ rp = RpIdle
    /\ tm = TmIdle
    /\ cv = CvIdle

NextMapped ==
    \E config \in MappedConfigs, c \in MappedCandidateLists, t \in MappedTieBreakers :
        CvRunMapped(config, MappedVoters, c, t)

SpecMapped == InitMapped /\ [][NextMapped]_vars

\* rankedPairs on every encoded profile
InitRp ==
    /\ enc = NoEnc
    /\ added \in RpProfiles
    /\ buf = EncodeBallots(added)
    /\ stv = StvIdle
    /\ rp = RpIdle
    /\ tm = TmIdle
    /\ cv = CvIdle

NextRp ==
    \/ \E w \in 1..MaxRpWinners, c \in CandidateLists, t \in RpTieBreakers : RpStart(w, c, t)
    \/ RpRound

SpecRp == InitRp /\ [][NextRp]_vars


(***************************************************************************)
(* Properties of the encoder and of the scans of config.ts.                *)
(***************************************************************************)
\* new(n), n addBallot calls and finish have run
Encoded == enc.made /\ buf # <<>> /\ Len(added) = enc.count

\* the number of occurrences of id c in a rank list
RECURSIVE OccurrencesIn(_, _)
OccurrencesIn(c, ranks) ==
    IF ranks = <<>> THEN 0
    ELSE Cardinality({k \in 1..Len(Head(ranks).ids) : Head(ranks).ids[k] = c})
         + OccurrencesIn(c, Tail(ranks))

\* the number of occurrences of id c on the ballots
RECURSIVE Occurrences(_, _)
Occurrences(c, ballots) ==
    IF ballots = <<>> THEN 0
    ELSE OccurrencesIn(c, Head(ballots)) + Occurrences(c, Tail(ballots))

\* the ids that occur on the ballots
IdsOn(ballots) == {c \in Ids : Occurrences(c, ballots) > 0}

\* C7: for n >= 0 ballots, new(n), the addBallot calls, finish and then
\* candidateMentions give a map that holds for every id its number of
\* occurrences on the ballots and has no entry for an id on no ballot.
C7_MentionRoundTrip ==
    Encoded =>
        LET tally == candidateMentions(buf)
        IN /\ \A c \in IdsOn(added) : MapHas(tally, c) /\ MapGet0(tally, c) = Occurrences(c, added)
           /\ MapKeys(tally) \subseteq IdsOn(added)

\* the words of a row split at each 0 word: the ids of each rank
RECURSIVE SplitAtZero(_, _, _)
SplitAtZero(words, ranks, current) ==
    IF words = <<>> THEN Append(ranks, current)
    ELSE IF Head(words) = 0 THEN SplitAtZero(Tail(words), Append(ranks, current), <<>>)
    ELSE SplitAtZero(Tail(words), ranks, Append(current, Head(words)))

\* the ranks read back from the words between two byte offsets
DecodeRow(mem, from, to) ==
    IF to <= from THEN <<>>
    ELSE SplitAtZero(SubSeq(mem, from \div 2 + 1, to \div 2), <<>>, <<>>)

\* the ids of each rank of a ballot, as given
IdsOfRanks(ranks) == [r \in 1..Len(ranks) |-> ranks[r].ids]

\* the offsets of the buffer are non-decreasing up to mentions_offset, and the
\* rows of the added ballots read back as added
OffsetsAndRows ==
    /\ \A i \in 1..R32(buf, 0) : R32(buf, i) <= R32(buf, i + 1)
    /\ \A i \in 1..Len(added) :
         DecodeRow(buf, R32(buf, i), R32(buf, i + 1)) = IdsOfRanks(added[i])

\* while the encoder is filled, every ballot added so far reads back from
\* its words in the encoder's buffer
EarlierRowsKept ==
    (enc.made /\ buf = <<>>) =>
        \A j \in 1..Len(added) :
            DecodeRow(enc.mem, R32(enc.mem, j),
                      IF j < Len(added) THEN R32(enc.mem, j + 1) ELSE enc.ballotCursor)
                = IdsOfRanks(added[j])

\* C8 as stated: after k <= n addBallot calls and finish the offsets are
\* non-decreasing and end at mentions_offset, every row splits at its 0
\* words into the ranks of the ballot, and no addBallot changes the words of
\* an earlier ballot.
C8_RowsAfterAnyPrefix ==
    /\ (enc.made /\ buf # <<>>) => OffsetsAndRows
    /\ EarlierRowsKept

\* C8, amended: the same after exactly k = n addBallot calls and finish; the
\* rows of earlier ballots are kept by every addBallot for k <= n.
C8_RowsAfterAllBallots ==
    /\ Encoded => OffsetsAndRows
    /\ EarlierRowsKept

\* a finished buffer of three ballots: ranks with several ids, number ranks,
\* and a blank ballot between them
C8_Witness ==
    /\ Encoded
    /\ Len(added) = 3
    /\ added[1] = <<ArrayRank(<<2>>), ArrayRank(<<3, 1>>)>>
    /\ added[2] = <<>>
    /\ added[3] = <<ArrayRank(<<1, 2>>), NumberRank(3)>>

\* C9: countBlanks of an encoded buffer is the number of ballots with an
\* empty rank list.
C9_BlankCount ==
    Encoded => countBlanks(buf) = Cardinality({i \in 1..Len(added) : added[i] = <<>>})

\* the last ballot is blank, an earlier one is blank and another is not
C9_Witness ==
    /\ Encoded
    /\ Len(added) = 3
    /\ added[1] # <<>>
    /\ added[2] = <<>>
    /\ added[3] = <<>>
    /\ countBlanks(buf) = 2

(***************************************************************************)
(* Properties of singleTransferableVote.                                   *)
(***************************************************************************)
NoDuplicates(s) == \A i, j \in 1..Len(s) : i # j => s[i] # s[j]

\* C1: a call that returns Success has at most max_winners winners, without
\* duplicates, all from the candidate list, and no quota election puts more
\* candidates into the elected set than there are seats.
C1_WinnersWithinSeats ==
    /\ stv.pc # "idle" => Len(stv.elected) <= stv.maxWinners
    /\ stv.status = "success" =>
        /\ Len(stv.winners) <= stv.maxWinners
        /\ NoDuplicates(stv.winners)
        /\ Range(stv.winners) \subseteq Range(stv.candidates)

\* the events that carry a snapshot of the vote values
SnapshotEvents == {i \in 1..Len(stv.events) : stv.events[i].type # "elect-rest"}

\* the number of ballots that received a first-preference assignment
FirstPreferenceCount ==
    Cardinality({b \in 1..R32(buf, 0) :
        NthPrefAssignments(buf, Range(stv.candidates), 0)[b] # 0})

\* the exponent all the given numbers are integer multiples of
RECURSIVE MinExp(_, _)
MinExp(S, e) ==
    IF S = {} THEN e
    ELSE LET x == CHOOSE y \in S : TRUE
         IN MinExp(S \ {x}, IF x[2] < e THEN x[2] ELSE e)

\* the exact sum of a set of indexed numbers, in units of 2^e
RECURSIVE ScaledSum(_, _, _)
ScaledSum(f, D, e) ==
    IF D = {} THEN 0
    ELSE LET d == CHOOSE y \in D : TRUE
         IN f[d][1] * 2 ^ (f[d][2] - e) + ScaledSum(f, D \ {d}, e)

\* the exact difference between the sum of f over D and the integer n, and
\* the unit 2^e it is counted in
Excess(f, D, n) ==
    LET e == MinExp({f[d] : d \in D}, 0)
    IN [units |-> ScaledSum(f, D, e) - n * 2 ^ (-e), exp |-> e]

\* the row sums of a snapshot: absent entries are not in the Map
SnapshotExcess(values) ==
    Excess(values, {c \in DOMAIN values : values[c] # RAbsent}, FirstPreferenceCount)

\* the column of ballot b in the table
ColumnExcess(b) ==
    Excess([c \in DOMAIN stv.vv.values |-> stv.vv.values[c][b]], DOMAIN stv.vv.values,
           IF NthPrefAssignments(buf, Range(stv.candidates), 0)[b] # 0 THEN 1 ELSE 0)

\* |x.units * 2^x.exp| <= calls * 2^(BitLen(n) - FloatBits): one unit in the
\* last place of n for every transferVotes call
WithinRounding(x, n, calls) ==
    LET sh == BitLen(n) - FloatBits - x.exp
    IN IF sh >= 0 THEN Abs(x.units) <= calls * 2 ^ sh
       ELSE Abs(x.units) * 2 ^ (-sh) <= calls

C10_NoEliminateOnceSeatsSuffice ==
    [][(\E i \in (Len(stv.events) + 1)..Len(stv'.events) : stv'.events[i].type = "eliminate")
          => Len(stv.elected) + Len(stv.remaining) > stv.maxWinners]_vars

\* a < b for two numbers <<m, e>>, compared as exact rationals
ExactLess(a, b) ==
    LET e == Min2(a[2], b[2])
    IN a[1] * 2 ^ (a[2] - e) < b[1] * 2 ^ (b[2] - e)

ElectWithQuotaEvents == {i \in 1..Len(stv.events) : stv.events[i].type = "elect-with-quota"}

\* C11: the quota of every ElectWithQuota event is ballotCount / (maxWinners + 1),
\* every candidate in the event's elected list has a value strictly greater
\* than the quota in the event's snapshot, and a candidate whose snapshot
\* value equals the quota is not in the elected list.
C11_ElectedStrictlyAboveQuota ==
    \A i \in ElectWithQuotaEvents :
        LET ev == stv.events[i]
        IN /\ ev.quota = FixedElectionQuota(Len(added), stv.maxWinners)
           /\ \A c \in Range(ev.elected) :
                /\ ev.values[c] # RAbsent
                /\ ExactLess(ev.quota, ev.values[c])
           /\ \A c \in Range(stv.candidates) :
                ev.values[c] = ev.quota => c \notin Range(ev.elected)

\* an event that elects a candidate while another candidate sits exactly on
\* the quota
C11_Witness ==
    \E i \in ElectWithQuotaEvents :
        /\ stv.events[i].elected # <<>>
        /\ \E c \in Range(stv.candidates) : stv.events[i].values[c] = stv.events[i].quota


(***************************************************************************)
(* Properties of thresholdMajority.                                        *)
(***************************************************************************)
\* the mention counts of the candidates leave no tie at the boundary: some
\* maxWinners candidates are each mentioned more often than every other one
TmNoBoundaryTie ==
    \E S \in SUBSET Range(tm.candidates) :
        /\ Cardinality(S) = tm.maxWinners
        /\ \A a \in S, b \in Range(tm.candidates) \ S :
              Occurrences(a, added) > Occurrences(b, added)

\* C3: when thresholdMajority returns Success for maxWinners < |candidates|
\* and there is no tie at the boundary, winners has exactly maxWinners
\* distinct members of the candidate list, and every winner is mentioned at
\* least as often as every candidate that is not a winner.
C3_MostMentionedWin ==
    (tm.pc = "done" /\ tm.status = "success" /\ tm.maxWinners < Len(tm.candidates)
        /\ TmNoBoundaryTie)
    => /\ Len(tm.winners) = tm.maxWinners
       /\ NoDuplicates(tm.winners)
       /\ Range(tm.winners) \subseteq Range(tm.candidates)
       /\ \A w \in Range(tm.winners), c \in Range(tm.candidates) \ Range(tm.winners) :
             Occurrences(w, added) >= Occurrences(c, added)

\* the mention count shared by the maxWinners-th and the (maxWinners + 1)-th
\* most-mentioned candidate, if they share one (a set with at most one count)
TmBoundaryCounts ==
    {v \in {Occurrences(c, added) : c \in Range(tm.candidates)} :
        /\ Cardinality({c \in Range(tm.candidates) : Occurrences(c, added) > v})
             < tm.maxWinners
        /\ Cardinality({c \in Range(tm.candidates) : Occurrences(c, added) >= v})
             > tm.maxWinners}

\* the candidates with the boundary mention count
TmTiedBand == {c \in Range(tm.candidates) : Occurrences(c, added) \in TmBoundaryCounts}

\* C12: when maxWinners < |candidates|, the maxWinners-th and the
\* (maxWinners + 1)-th highest mention counts are equal and no tie-breaker is
\* given, thresholdMajority returns TieBreakerNeeded and the tied nodes are
\* exactly the candidates with the boundary mention count.
C12_BoundaryTieNeedsTieBreaker ==
    (tm.pc = "done" /\ tm.maxWinners < Len(tm.candidates) /\ ~tm.tieBreaker.given
        /\ TmBoundaryCounts # {})
    => /\ tm.status = "tie-breaker-needed"
       /\ Range(tm.tiedNodes) = TmTiedBand

\* the candidates mentioned more often than the tied band
TmAboveBand ==
    {c \in Range(tm.candidates) : \A v \in TmBoundaryCounts : Occurrences(c, added) > v}

\* the band members that take the seats left by the candidates above the
\* band: those with the lowest tie-breaker indices
TmBandSeated ==
    {c \in TmTiedBand :
        Cardinality({d \in TmTiedBand :
            IndexOf(tm.tieBreaker.order, d) < IndexOf(tm.tieBreaker.order, c)})
          < tm.maxWinners - Cardinality(TmAboveBand)}

\* C13: when the boundary is tied and a tie-breaker is given, a tie-breaker
\* that holds every member of the tied band gives Success with the candidates
\* above the band and the band members of lowest tie-breaker index as
\* winners; IncompleteTieBreaker is returned only when a member of the tied
\* band is not in the tie-breaker.
C13_TieBreakerOrdersTheBand ==
    (tm.pc = "done" /\ tm.maxWinners < Len(tm.candidates) /\ tm.tieBreaker.given
        /\ TmBoundaryCounts # {})
    => /\ TmTiedBand \subseteq Range(tm.tieBreaker.order)
            => /\ tm.status = "success"
               /\ Range(tm.winners) = TmAboveBand \cup TmBandSeated
       /\ tm.status = "incomplete-tie-breaker"
            => ~(TmTiedBand \subseteq Range(tm.tieBreaker.order))


(***************************************************************************)
(* Properties of rankedPairs.                                              *)
(***************************************************************************)
\* C2: a Success result of rankedPairs has at most maxWinners winners, no
\* winner twice, every winner from the input candidate list, and in every
\* round the winner is the one listed and not the winner of an earlier round.
C2_RpWinnersDistinctWithinSeats ==
    /\ rp.status = "success"
        => /\ Len(rp.winners) <= rp.maxWinners
           /\ NoDuplicates(rp.winners)
           /\ Range(rp.winners) \subseteq Range(rp.candidates)
    /\ Len(rp.rounds) = Len(rp.winners)
    /\ \A k \in 1..Len(rp.rounds) :
          /\ rp.rounds[k].winner = rp.winners[k]
          /\ \A j \in 1..(k - 1) : rp.rounds[j].winner # rp.rounds[k].winner

\* rankedPairs returned Success with two rounds run
C2_Witness ==
    rp.pc = "done" /\ rp.status = "success" /\ Len(rp.winners) = 2 /\ Len(rp.rounds) = 2

\* the nodes reachable from the nodes of S along the edges of E
RECURSIVE ReachSet(_, _)
ReachSet(E, S) ==
    LET N == S \cup {e[2] : e \in {x \in E : x[1] \in S}}
    IN IF N = S THEN S ELSE ReachSet(E, N)

\* b is reachable from a along one or more edges of E
Reaches(E, a, b) == b \in ReachSet(E, {e[2] : e \in {x \in E : x[1] = a}})

Acyclic(E) == \A e \in E : ~Reaches(E, e[1], e[1])

\* C5: in every round, after each insertion into the lock graph, of an
\* ordered pair's winning edge or of a tie-breaker edge between roots, the
\* lock graph has no directed cycle; and the edge w -> l of an ordered pair
\* goes from the pair's winner to its loser and is inserted only when w is
\* not reachable from l along the edges already there.
C5_LockGraphAcyclic ==
    \A k \in 1..Len(rp.log) :
        LET e == rp.log[k]
            w == e.edge[1]
            l == e.edge[2]
            pair == IF w > l THEN <<w, l>> ELSE <<l, w>>
        IN /\ Acyclic(Range(e.before) \cup {e.edge})
           /\ ~e.byTieBreaker
                => /\ WinningNode(rp.graph, pair) = w
                   /\ ~Reaches(Range(e.before), l, w)

\* a round that locked in at least two pairs and left one out
C5_Witness == Len(rp.log) >= 2 /\ rp.skipped # <<>>

\* C6: every round winner of rankedPairs is mentioned in the encoded
\* ballots at least ballotCount / 2 times.
C6_WinnersMentionedByHalf ==
    \A w \in Range(rp.winners) : 2 * Occurrences(w, added) >= Len(added)

\* a Success result for a candidate list with a candidate mentioned on
\* fewer than half of the ballots
C6_Witness ==
    /\ rp.pc = "done" /\ rp.status = "success" /\ rp.winners # <<>>
    /\ \E c \in Range(rp.candidates) : 2 * Occurrences(c, added) < Len(added)


\* the candidates of the pairs with ballots, before the first round
RpInitialMentioned == Range(MentionedOf(MentionedPairs(rp.graph, rp.sortedCandidates), <<>>))

\* the active candidate set of round k: the earlier round winners removed
RpActive(k) == RpInitialMentioned \ {rp.winners[j] : j \in 1..(k - 1)}

\* the last round run ended without a winner
RpRoundFailed == rp.status \notin {"none", "success"}

\* the active candidate set of the round whose insertions are in rp.log
RpLoggedActive == RpActive(IF RpRoundFailed THEN Len(rp.winners) + 1 ELSE Len(rp.winners))

RpPairEdges == {rp.log[k].edge : k \in {j \in 1..Len(rp.log) : ~rp.log[j].byTieBreaker}}

RpTieBreakerEdges == {rp.log[k].edge : k \in {j \in 1..Len(rp.log) : rp.log[j].byTieBreaker}}

\* the nodes without an incoming edge
RootsOf(nodes, E) == {n \in nodes : \A e \in E : e[2] # n}

\* the roots of the lock graph built from the ordered pairs
RpRootsBefore == RootsOf(RpLoggedActive, RpPairEdges)

\* C14: no round ends in the 'more than one winner for this round' error and
\* every round winner is in the active candidate set of its round; in a round
\* whose lock graph has several roots, with a tie-breaker that holds all of
\* them, one tie-breaker-directed edge is inserted for every pair of roots,
\* the lock graph then has exactly one root, the root of lowest tie-breaker
\* index, and that root is the round winner.
C14_DisjointRootsResolved ==
    /\ rp.status # "error"
    /\ \A k \in 1..Len(rp.rounds) : rp.rounds[k].winner \in RpActive(k)
    /\ (rp.log # <<>> /\ Cardinality(RpRootsBefore) > 1 /\ rp.tieBreaker.given
            /\ RpRootsBefore \subseteq Range(rp.tieBreaker.order))
       => /\ ~RpRoundFailed
          /\ RpTieBreakerEdges =
                {e \in RpRootsBefore \X RpRootsBefore :
                    IndexOf(rp.tieBreaker.order, e[1]) < IndexOf(rp.tieBreaker.order, e[2])}
          /\ \E r \in RpRootsBefore :
                /\ \A o \in RpRootsBefore :
                      IndexOf(rp.tieBreaker.order, r) <= IndexOf(rp.tieBreaker.order, o)
                /\ RootsOf(RpLoggedActive, RpPairEdges \cup RpTieBreakerEdges) = {r}
                /\ rp.winners # <<>> /\ rp.winners[Len(rp.winners)] = r

\* a round with several roots that the tie-breaker resolved
C14_Witness ==
    /\ rp.log # <<>> /\ ~RpRoundFailed /\ rp.winners # <<>>
    /\ Cardinality(RpRootsBefore) > 1
    /\ RpTieBreakerEdges # {}


\* the candidates mentioned on at least half of the ballots
RpFiltered == {c \in Range(rp.candidates) : 2 * Occurrences(c, added) >= Len(added)}

\* the rank of id c on a ballot, counted from 1; 0 when c is not on it
RankOn(c, ranks) ==
    IF \E k \in 1..Len(ranks) : Has(ranks[k].ids, c)
    THEN CHOOSE k \in 1..Len(ranks) : Has(ranks[k].ids, c)
    ELSE 0

\* the ballots that order no two of the filtered candidates
RpEmptyBallots ==
    {i \in 1..Len(added) :
        \A a \in RpFiltered, b \in RpFiltered : RankOn(a, added[i]) = RankOn(b, added[i])}

\* C15: rankedPairs returns MajorityEmpty exactly when the ballots that order
\* no pair of the filtered candidates are at least half of the ballots, and a
\* MajorityEmpty result carries no winner, no round and no tie-breaker
\* request.
C15_MajorityEmptyIffHalfEmpty ==
    rp.pc # "idle" =>
        /\ rp.status = "majority-empty" <=> 2 * Cardinality(RpEmptyBallots) >= Len(added)
        /\ rp.status = "majority-empty" =>
              rp.winners = <<>> /\ rp.rounds = <<>> /\ rp.failPairs = <<>> /\ rp.missing = <<>>

(***************************************************************************)
(* Properties of runConfigVote.                                            *)
(***************************************************************************)
\* the ballots of the profile that rank nothing
CvBlankBallots == Cardinality({i \in 1..Len(added) : added[i] = <<>>})

\* count / eligible against the fraction n / d of the quorum, in exact
\* arithmetic; k / 0 is above every quorum and 0 / 0 passes none
CvQuorumReached ==
    LET q == cv.config.quorum
        count == Len(added)
    IN IF cv.eligibleVoters = 0 THEN count > 0
       ELSE IF cv.config.quorumInclusive
       THEN count * q.d >= q.n * cv.eligibleVoters
       ELSE count * q.d > q.n * cv.eligibleVoters

\* blank / count against the fraction n / d of the blank limit, in exact
\* arithmetic; 0 / 0 is within no limit
CvBlanksWithin ==
    LET l == cv.config.blankBallotsLimit
        count == Len(added)
    IN IF count = 0 THEN FALSE
       ELSE IF cv.config.blankBallotsLimitInclusive
       THEN CvBlankBallots * l.d <= l.n * count
       ELSE CvBlankBallots * l.d < l.n * count

TmWith(t) == thresholdMajority(tm.maxWinners, tm.candidates, buf, t)
RpWith(t) == rankedPairs(tm.maxWinners, tm.candidates, buf, t)
StvWith(t) == singleTransferableVote(tm.maxWinners, tm.candidates, buf, t)

\* C17: the tie-breaker is consulted only when required: when a run of
\* thresholdMajority, rankedPairs or singleTransferableVote without a
\* tie-breaker returns Success with a value, the run on the same ballots,
\* candidates and max_winners with a tie-breaker, complete or not, returns
\* Success with the same value.
C17_TieBreakerOnlyWhenRequired ==
    (tm.pc = "done" /\ tm.tieBreaker.given) =>
        /\ TmWith(NoTieBreaker).status = "success" =>
              /\ tm.status = "success"
              /\ tm.winners = TmWith(NoTieBreaker).winners
              /\ tm.tally = TmWith(NoTieBreaker).tally
        /\ RpWith(NoTieBreaker).status = "success" =>
              /\ RpWith(tm.tieBreaker).status = "success"
              /\ RpWith(tm.tieBreaker).winners = RpWith(NoTieBreaker).winners
              /\ RpWith(tm.tieBreaker).rounds = RpWith(NoTieBreaker).rounds
        /\ StvWith(NoTieBreaker).status = "success" =>
              /\ StvWith(tm.tieBreaker).status = "success"
              /\ StvWith(tm.tieBreaker).winners = StvWith(NoTieBreaker).winners
              /\ StvWith(tm.tieBreaker).events = StvWith(NoTieBreaker).events

\* the three engines succeed without a tie-breaker and the call was given an
\* incomplete tie-breaker
C17_Witness ==
    /\ tm.pc = "done"
    /\ tm.tieBreaker = TieBreakerOf(<<2, 3>>)
    /\ tm.status = "success"
    /\ TmWith(NoTieBreaker).status = "success"
    /\ RpWith(NoTieBreaker).status = "success"
    /\ StvWith(NoTieBreaker).status = "success"
    /\ RpWith(NoTieBreaker).winners # <<>>

(***************************************************************************)
(* Properties of the encoder under any sequence of calls.                  *)
(***************************************************************************)
\* C18: addBallot rejects id 0 in every form: no ballot with a rank that is
\* the single id 0 or a set containing id 0 is accepted, and the mention
\* tally of the encoder never has an entry for id 0.
C18_ZeroIdRejected ==
    enc.made =>
        /\ \A i \in 1..Len(added) : \A k \in 1..Len(added[i]) : ~Has(added[i][k].ids, 0)
        /\ ~MapHas(enc.candidateMentions, 0)

\* C19: on an encoder made with new(n) that has taken n ballots, one more
\* addBallot call raises an error and leaves the buffer as it was: the
\* mentions_offset slot and the words of the ballots encoded before.
C19_ExtraAddBallotRaises ==
    [][(/\ enc.made
        /\ Len(added) = enc.count
        /\ enc.ballotIndex = enc.count + 1
        /\ buf' = <<>>
        /\ enc'.ballotIndex = enc.ballotIndex + 1)
       => (enc'.threw /\ enc'.mem = enc.mem)]_vars

(***************************************************************************)
(* Properties of runMappedConfigVote.                                      *)
(***************************************************************************)
\* a ballot without the values that are not listed; a rank left empty is
\* dropped
RECURSIVE WithoutUnlisted(_, _)
WithoutUnlisted(ballot, listed) ==
    IF ballot = <<>> THEN <<>>
    ELSE LET ids == FilterSeq(Head(ballot).ids, listed)
         IN (IF ids = <<>> THEN <<>> ELSE <<[Head(ballot) EXCEPT !.ids = ids]>>)
            \o WithoutUnlisted(Tail(ballot), listed)

\* the caller's ballots without the unlisted values
MappedListedOnly ==
    Array([i \in 1..Len(added) |-> WithoutUnlisted(added[i], Range(cv.candidates))])

\* every candidate of the result: winners, tied nodes, pairs, missing and
\* the candidates included and excluded by mentions
MappedResultCandidates ==
    Range(cv.result.value.winners) \cup Range(cv.result.tiedNodes)
    \cup UNION {Range(cv.result.pairs[i]) : i \in 1..Len(cv.result.pairs)}
    \cup Range(cv.result.missing)
    \cup Range(cv.result.mentions.includedByMentions)
    \cup Range(cv.result.mentions.excludedByMentions)

\* the result of the mapped entry is that of the ballots without the
\* unlisted values
MappedUnlistedIgnored ==
    (cv.pc = "mapped" /\ cv.config.type \notin {"yn", "ynb"}) =>
        cv.result = runMappedConfigVote(cv.config, MappedListedOnly, cv.eligibleVoters,
                                        cv.candidates, cv.tieBreaker)

\* C20: for a configuration that is not Yes/No and distinct candidate
\* values, runMappedConfigVote returns on ballots with unlisted values what
\* it returns on the ballots without them, and every candidate of the
\* result (winners, tied nodes, pairs, missing, included and excluded by
\* mentions) is one of the caller's candidate values.
C20_MappedAnswersInCallersValues ==
    (cv.pc = "mapped" /\ cv.config.type \notin {"yn", "ynb"}) =>
        /\ MappedUnlistedIgnored
        /\ MappedResultCandidates \subseteq Range(cv.candidates)

(***************************************************************************)
(* Elimination in the single transferable vote.                            *)
(***************************************************************************)
\* the answer of findCandidateToEliminate in the state that is about to
\* eliminate
StvElimination ==
    findCandidateToEliminate(stv.remaining, Range(stv.candidates), buf,
                             stv.vv.candValues, stv.tieBreaker)

\* the remaining candidates with the smallest current vote value
StvMinCandidates == Range(FewestByValue(stv.remaining, stv.vv.candValues))

\* C21: the candidate that an elimination removes has, immediately before
\* the elimination, a vote value less than or equal to that of every other
\* remaining candidate, and the candidates handed to the tie-breaker all
\* belong to the set of remaining candidates with the smallest vote value.
C21_EliminationTargetsMinimum ==
    stv.pc = "elim" =>
        /\ StvElimination.status = "success" => StvElimination.value \in StvMinCandidates
        /\ StvElimination.status = "tie-breaker-needed" =>
               Range(StvElimination.tiedNodes) \subseteq StvMinCandidates

(***************************************************************************)
(* Transfers in the single transferable vote.                              *)
(***************************************************************************)
\* the candidates whose part of ballot i grows in a step
StvReceivers(i) ==
    {c \in DOMAIN stv.vv.values :
        ~FLe(stv'.vv.values[c][i], stv.vv.values[c][i])}

\* a step between two states of one count
StvTransferStep ==
    stv.vv.values # <<>> /\ stv'.vv.values # <<>>

\* C22: when votes are transferred, the value of a ballot moves only to
\* candidates listed on that ballot: no candidate that does not appear on a
\* ballot ever receives value from that ballot, the last ballot of the
\* buffer included.
C22_TransfersFollowBallot ==
    [][StvTransferStep =>
        \A i \in 1..Len(added) : StvReceivers(i) \subseteq Range(RowIds(added[i]))]_vars

(***************************************************************************)
(* The order of tied pairs in ranked pairs.                                *)
(***************************************************************************)
\* the pairs of a round's order that have the greatest difference: no pair
\* precedes them, so none of them has already lost or already won
RpTopPairs(orderedPairs) ==
    {i \in 1..Len(orderedPairs) :
        Abs(rp.graph[orderedPairs[i]].diff) = Abs(rp.graph[orderedPairs[1]].diff)}

\* the tie-breaker index of the losing node of a pair
RpLosingIndex(p) == IndexOf(rp.tieBreaker.order, LosingNode(rp.graph, p))

\* C23: pairs of equal difference that are still tied, with a tie-breaker
\* that contains all their losing nodes, are emitted in order of decreasing
\* tie-breaker index of the losing node: the pair whose losing node is
\* least preferred comes first.
C23_TiedPairsLeastPreferredFirst ==
    rp.tieBreaker.given =>
        \A k \in 1..Len(rp.rounds) :
            \A i, j \in RpTopPairs(rp.rounds[k].orderedPairs) :
                (/\ i < j
                 /\ RpLosingIndex(rp.rounds[k].orderedPairs[i]) # -1
                 /\ RpLosingIndex(rp.rounds[k].orderedPairs[j]) # -1)
                => RpLosingIndex(rp.rounds[k].orderedPairs[i])
                       >= RpLosingIndex(rp.rounds[k].orderedPairs[j])

(***************************************************************************)
(* The rounds of ranked pairs.                                             *)
(***************************************************************************)
\* the filtered candidates that are a node of a pair with ballots
RpMentioned ==
    Range(MentionedOf(MentionedPairs(rp.graph, rp.sortedCandidates), <<>>))

\* C24: a rankedPairs call that returns Success has as many rounds as
\* winners, and that number is min(max_winners, |mentioned|); no round
\* records an undefined winner.
C24_RoundCount ==
    (rp.pc = "done" /\ rp.status = "success") =>
        /\ Len(rp.rounds) = Len(rp.winners)
        /\ Len(rp.winners) = Min2(rp.maxWinners, Cardinality(RpMentioned))
        /\ \A k \in 1..Len(rp.winners) : rp.winners[k] # Undef

\* two rounds fill the seats of a call that asks for more seats than there
\* are mentioned candidates
C24_Witness ==
    /\ rp.pc = "done" /\ rp.status = "success"
    /\ rp.maxWinners = MaxRpWinners
    /\ Len(rp.rounds) = 2
    /\ Cardinality(RpMentioned) = 2

(***************************************************************************)
(* scanNthPreferences against its definition.                              *)
(***************************************************************************)
\* the (n+1)-th id of a ballot, in stored order, that belongs to the active
\* set; 0 when the ballot has fewer such ids
NthActiveId(ranks, cands, n) ==
    IF n < Len(FilterSeq(RowIds(ranks), cands))
    THEN FilterSeq(RowIds(ranks), cands)[n + 1] ELSE 0

\* the n-th preference of every ballot passed to the encoder
NthPrefReference(cands, n) ==
    Array([b \in 1..Len(added) |-> NthActiveId(added[b], cands, n)])

\* C25: on the encoded buffer, scanNthPreferences records for every ballot
\* the (n+1)-th id of that ballot that belongs to the active set, or 0 when
\* there is none, and its tally counts exactly these assignments.
C25_NthPreferencesMatchReference ==
    buf # <<>> =>
        \A c \in CandidateLists : \A n \in 0..2 :
            /\ NthPrefAssignments(buf, Range(c), n) = NthPrefReference(Range(c), n)
            /\ scanNthPreferences(buf, Range(c), n) = TallyOf(NthPrefReference(Range(c), n), <<>>)

(***************************************************************************)
(* The mention tally read by the engines.                                  *)
(***************************************************************************)
\* the Yes/No configurations
YnConfigs == {c \in CvConfigs : c.type \in {"yn", "ynb"}}

\* the candidates that filterCandidates keeps when it reads candidateMentions
FilteredByMentions(candidates) ==
    FilterSeq(candidates,
              {c \in Range(candidates) :
                  /\ MapHas(candidateMentions(buf), c)
                  /\ 2 * MapGet0(candidateMentions(buf), c) >= R32(buf, 0)})

\* C26: on every buffer returned by finish, whatever its number of 16-bit
\* words, the tally returned by thresholdMajority equals
\* candidateMentions(buffer), the yes and no counts of yesNo equal the
\* occurrences of ids 2 and 1 on the ballots, and the mention filter of
\* rankedPairs works on the counts of candidateMentions(buffer).
C26_EnginesReadSameMentionTally ==
    tm.pc = "done" =>
        /\ tm.tally = candidateMentions(buf)
        /\ \A c \in YnConfigs :
              /\ yesNo(c, buf, MappedVoters).tally.yes = Occurrences(YNB_YES, added)
              /\ yesNo(c, buf, MappedVoters).tally.no = Occurrences(YNB_NO, added)
        /\ \A c \in CandidateLists :
              filterCandidates(SortNumeric(c), buf) = FilteredByMentions(SortNumeric(c))

(***************************************************************************)
(* compareNodesAccordingToBallot against the ballots.                      *)
(***************************************************************************)
\* the rank of an id on a ballot: the number of separators before it, Undef
\* when the id is not on the ballot
RECURSIVE RankOnBallot(_, _, _)
RankOnBallot(ranks, id, rank) ==
    IF ranks = <<>> THEN Undef
    ELSE IF Has(Head(ranks).ids, id) THEN rank
    ELSE RankOnBallot(Tail(ranks), id, rank + 1)

\* the comparison of a and b on ballot i of the buffer (i from 0)
ComparedOn(i, a, b) ==
    compareNodesAccordingToBallot(buf, R32(buf, i + 1), R32(buf, i + 2), a, b)

\* the comparison of two ranks: positive when a is preferred, infinite when
\* one of the two has no rank
RankComparison(rankA, rankB) ==
    IF rankA = Undef /\ rankB = Undef THEN RankDifference(0)
    ELSE IF rankB = Undef THEN SignedInfinity(1)
    ELSE IF rankA = Undef THEN SignedInfinity(-1)
    ELSE RankDifference(rankB - rankA)

\* the pairs of distinct ids
DistinctIds == {ab \in Ids \X Ids : ab[1] # ab[2]}

RankComparisonAsStated(rankA, rankB) ==
    IF rankA = Undef /\ rankB = Undef THEN RankDifference(0)
    ELSE IF rankB = Undef THEN SignedInfinity(-1)
    ELSE IF rankA = Undef THEN SignedInfinity(1)
    ELSE RankDifference(rankB - rankA)

StvReturned ==
    /\ stv.pc = "done"
    /\ stv.status \in {"success", "tie-breaker-needed", "incomplete-tie-breaker"}

\* the Eliminate events of a list of events
StvEliminations(events) == {k \in 1..Len(events) : events[k].type = "eliminate"}

\* a pass of the outer loop ends the run, elects at least one remaining
\* candidate, or elects nobody and enters the elimination with the
\* remaining candidates as they are
StvLoopProgress ==
    stv.pc = "loop" =>
        \/ stv'.pc = "done"
        \/ Len(stv'.remaining) < Len(stv.remaining)
        \/ stv'.pc = "elim" /\ stv'.remaining = stv.remaining

\* a pass of the elimination loop ends the run or removes exactly one
\* remaining candidate, and with those it elects at least one
StvEliminationProgress ==
    stv.pc = "elim" =>
        \/ stv'.pc = "done"
        \/ /\ Len(stv'.remaining) < Len(stv.remaining)
           /\ Cardinality(StvEliminations(stv'.events))
                  = Cardinality(StvEliminations(stv.events)) + 1

\* while the call is inside its loops the next pass is possible and leads to
\* a different state
StvPassChangesState ==
    /\ stv.pc = "loop" => StvLooped(stv, buf) # stv
    /\ stv.pc = "elim" => StvEliminated(stv, buf) # stv

C29_MissingAreCandidatesOutsideTieBreaker ==
    (rp.pc = "done" /\ rp.status = "incomplete-tie-breaker") =>
        /\ rp.missing # <<>>
        /\ Range(rp.missing) \subseteq Range(rp.candidates) \ Range(rp.tieBreaker.order)

(***************************************************************************)
(* The arguments of an engine after the call.                              *)
(***************************************************************************)
\* C30: a call of rankedPairs, whatever its outcome, leaves the caller's
\* candidate list exactly as it was before the call, contents and order.
C30_CandidateListUnchanged ==
    rp.pc = "done" => rp.candidatesAfter = rp.candidates

====
